---- MODULE Spec2Model ----
(***************************************************************************)
(* A model of the rjs runtime core: the property hash store of            *)
(* src/rt/hash.rs and the handle / root-walker side of the garbage         *)
(* collector of src/gc/mod.rs.                                             *)
(***************************************************************************)
EXTENDS Integers, Sequences, FiniteSets, TLC

(***************************************************************************)
(* Bounds of the exploration.                                              *)
(***************************************************************************)
\* names are drawn from 0..MaxName
MaxName == 6
\* an add that would grow the table beyond this capacity is not explored
MaxCapacity == 17
\* a wrapped counter is followed this many steps below zero
MaxUnderflow == 1
\* number of calls made on a store after it was set up
MaxOps == 3
\* a store is set up with the names 0..n-1 for n up to MaxFill
MaxFill == 5

(***************************************************************************)
(* Option values: None is the empty tuple, Some(x) the one-element tuple.  *)
(***************************************************************************)
None == << >>
Some(x) == << x >>
unwrap_or(o, d) == IF o = None THEN d ELSE o[1]

\* JsValue::new_undefined(), as a value word
Undefined == 0

(***************************************************************************)
(* rt/hash.rs: flags                                                       *)
(***************************************************************************)
VALID == 1
WRITABLE == 2
ENUMERABLE == 4
CONFIGURABLE == 8
ACCESSOR == 16

\* (flags & bit) != 0, for a single-bit mask
HasFlag(flags, bit) == (flags \div bit) % 2 = 1

(***************************************************************************)
(* rt/mod.rs: JsDescriptor                                                 *)
(***************************************************************************)
default == [value |-> None, get |-> None, set |-> None,
            writable |-> None, enumerable |-> None, configurable |-> None]

new_value(value, writable, enumerable, configurable) ==
    [value |-> Some(value), get |-> None, set |-> None,
     writable |-> Some(writable), enumerable |-> Some(enumerable),
     configurable |-> Some(configurable)]

is_accessor(d) == d.get # None \/ d.set # None

\* the descriptors handed to the store: results of the constructors above
Descriptors ==
    LET new_accessor(get, set, enumerable, configurable) ==
            [value |-> None, get |-> get, set |-> set,
             writable |-> None, enumerable |-> Some(enumerable),
             configurable |-> Some(configurable)]
    IN
    { new_value(2, FALSE, TRUE, FALSE),
      new_accessor(Some(1), None, FALSE, TRUE) }

Names == 0..MaxName

(***************************************************************************)
(* rt/hash.rs: Entry                                                       *)
(***************************************************************************)
\* a slot of a freshly allocated table: zero-filled memory
ZeroEntry == [name |-> 0, flags |-> 0, next |-> 0, value1 |-> 0, value2 |-> 0]

is_valid(e) == HasFlag(e.flags, VALID)

as_property(e) ==
    IF HasFlag(e.flags, ACCESSOR)
    THEN [value |-> None,
          get |-> Some(e.value1),
          set |-> Some(e.value2),
          writable |-> None,
          enumerable |-> Some(HasFlag(e.flags, ENUMERABLE)),
          configurable |-> Some(HasFlag(e.flags, CONFIGURABLE))]
    ELSE [value |-> Some(e.value1),
          get |-> None,
          set |-> None,
          writable |-> Some(HasFlag(e.flags, WRITABLE)),
          enumerable |-> Some(HasFlag(e.flags, ENUMERABLE)),
          configurable |-> Some(HasFlag(e.flags, CONFIGURABLE))]

\* from_descriptor with the enumerable and configurable bits exchanged
from_descriptor_swapped(d, name, next) ==
    [name |-> name,
     flags |-> VALID
               + (IF unwrap_or(d.writable, TRUE) THEN WRITABLE ELSE 0)
               + (IF unwrap_or(d.configurable, TRUE) THEN ENUMERABLE ELSE 0)
               + (IF unwrap_or(d.enumerable, TRUE) THEN CONFIGURABLE ELSE 0)
               + (IF is_accessor(d) THEN ACCESSOR ELSE 0),
     next |-> next,
     value1 |-> IF is_accessor(d) THEN unwrap_or(d.get, Undefined)
                ELSE unwrap_or(d.value, Undefined),
     value2 |-> IF is_accessor(d) THEN unwrap_or(d.set, Undefined)
                ELSE Undefined]

from_descriptor(d, name, next) ==
    [name |-> name,
     flags |-> VALID
               + (IF unwrap_or(d.writable, TRUE) THEN WRITABLE ELSE 0)
               + (IF unwrap_or(d.configurable, TRUE) THEN CONFIGURABLE ELSE 0)
               + (IF unwrap_or(d.enumerable, TRUE) THEN ENUMERABLE ELSE 0)
               + (IF is_accessor(d) THEN ACCESSOR ELSE 0),
     next |-> next,
     value1 |-> IF is_accessor(d) THEN unwrap_or(d.get, Undefined)
                ELSE unwrap_or(d.value, Undefined),
     value2 |-> IF is_accessor(d) THEN unwrap_or(d.set, Undefined)
                ELSE Undefined]

(***************************************************************************)
(* rt/hash.rs: mod primes                                                  *)
(***************************************************************************)
PRIMES ==
    << 3, 7, 11, 17, 23, 29, 37, 47, 59, 71, 89, 107, 131, 163, 197, 239,
       293, 353, 431, 521, 631, 761, 919, 1103, 1327, 1597, 1931, 2333,
       2801, 3371, 4049, 4861, 5839, 7013, 8419, 10103, 12143, 14591,
       17519, 21023, 25229, 30293, 36353, 43627, 52361, 62851, 75431,
       90523, 108631, 130363, 156437, 187751, 225307, 270371, 324449,
       389357, 467237, 560689, 672827, 807403, 968897, 1162687, 1395263,
       1674319, 2009191, 2411033, 2893249, 3471899, 4166287, 4999559,
       5999471, 7199369 >>

RECURSIVE HasOddDivisor(_, _)
\* the trial-division loop of is_prime, from divisor upwards
HasOddDivisor(candidate, divisor) ==
    IF divisor * divisor > candidate THEN FALSE
    ELSE IF candidate % divisor = 0 THEN TRUE
    ELSE HasOddDivisor(candidate, divisor + 2)

RECURSIVE ProbePrime(_)
\* the fallback loop of get_prime for a minimum beyond the table (its
\* u32::MAX limit lies beyond every minimum explored)
ProbePrime(prime) ==
    LET is_prime(candidate) ==
            IF candidate % 2 # 0 THEN ~HasOddDivisor(candidate, 3)
            ELSE candidate = 2
    IN
    IF is_prime(prime) THEN prime
    ELSE ProbePrime(prime + 2)

get_prime(minimum) ==
    IF \E i \in 1..Len(PRIMES) : PRIMES[i] >= minimum
    THEN PRIMES[CHOOSE i \in 1..Len(PRIMES) :
                  /\ PRIMES[i] >= minimum
                  /\ \A j \in 1..(i - 1) : PRIMES[j] < minimum]
    ELSE ProbePrime(IF minimum % 2 = 0 THEN minimum + 1 ELSE minimum)

(***************************************************************************)
(* rt/hash.rs: Hash.  A store is [entries, count]; entries is a function   *)
(* on 0..capacity-1.                                                       *)
(***************************************************************************)
capacity(h) == Cardinality(DOMAIN h.entries)

\* Hash::hash
home(h, name) == name % capacity(h)

HashNew(cap) ==
    [entries |-> [i \in 0..(get_prime(cap) - 1) |-> ZeroEntry], count |-> 0]

RECURSIVE FindFrom(_, _, _, _)
\* the loop of find_entry; fuel bounds the walk by the number of slots
FindFrom(h, name, offset, fuel) ==
    IF h.entries[offset].name = name THEN Some(offset)
    ELSE IF h.entries[offset].next < 0 THEN None
    ELSE IF fuel = 0 THEN None
    ELSE FindFrom(h, name, h.entries[offset].next, fuel - 1)

find_entry(h, name) ==
    IF ~is_valid(h.entries[home(h, name)]) THEN None
    ELSE FindFrom(h, name, home(h, name), capacity(h))

get_value(h, name) ==
    IF find_entry(h, name) # None
    THEN Some(as_property(h.entries[find_entry(h, name)[1]]))
    ELSE None

RECURSIVE RemoveWalk(_, _, _, _, _)
\* the search loop of remove: yields last and index, or reports that the
\* loop revisits a slot and so never ends
RemoveWalk(h, name, last, index, fuel) ==
    IF index # -1 /\ h.entries[index].name # name
    THEN IF fuel = 0
         THEN [hangs |-> TRUE, last |-> last, index |-> index]
         ELSE RemoveWalk(h, name, index, h.entries[index].next, fuel - 1)
    ELSE [hangs |-> FALSE, last |-> last, index |-> index]

\* remove that invalidates a chained entry without relinking its predecessor
remove_unlinked(h, name) ==
    LET w == RemoveWalk(h, name, -1, home(h, name), capacity(h))
        index == w.index
        last == w.last
        next == h.entries[index].next
        es == IF last # -1
              THEN [h.entries EXCEPT ![index].flags = 0]
              ELSE IF next # -1
              THEN [h.entries EXCEPT ![index] = h.entries[next],
                                     ![next] = [h.entries[next] EXCEPT !.flags = 0]]
              ELSE [h.entries EXCEPT ![index].flags = 0]
    IN  IF w.hangs
        THEN [h |-> h, result |-> FALSE, hangs |-> TRUE, underflow |-> FALSE]
        ELSE IF index < 0
        THEN [h |-> h, result |-> FALSE, hangs |-> FALSE, underflow |-> FALSE]
        ELSE [h |-> [entries |-> es, count |-> h.count - 1],
              result |-> TRUE, hangs |-> FALSE, underflow |-> h.count = 0]

\* remove that only invalidates the head of a chain, successor or not
remove_head_only(h, name) ==
    LET w == RemoveWalk(h, name, -1, home(h, name), capacity(h))
        index == w.index
        last == w.last
        next == h.entries[index].next
        es == IF last # -1
              THEN [h.entries EXCEPT ![last].next = next, ![index].flags = 0]
              ELSE [h.entries EXCEPT ![index].flags = 0]
    IN  IF w.hangs
        THEN [h |-> h, result |-> FALSE, hangs |-> TRUE, underflow |-> FALSE]
        ELSE IF index < 0
        THEN [h |-> h, result |-> FALSE, hangs |-> FALSE, underflow |-> FALSE]
        ELSE [h |-> [entries |-> es, count |-> h.count - 1],
              result |-> TRUE, hangs |-> FALSE, underflow |-> h.count = 0]

\* remove: the resulting store, the returned flag, and whether the call
\* hangs or the u32 counter underflows
remove(h, name) ==
    LET w == RemoveWalk(h, name, -1, home(h, name), capacity(h))
        index == w.index
        last == w.last
        next == h.entries[index].next
        es == IF last # -1
              THEN [h.entries EXCEPT ![last].next = next, ![index].flags = 0]
              ELSE IF next # -1
              THEN [h.entries EXCEPT ![index] = h.entries[next],
                                     ![next] = [h.entries[next] EXCEPT !.flags = 0]]
              ELSE [h.entries EXCEPT ![index].flags = 0]
    IN  IF w.hangs
        THEN [h |-> h, result |-> FALSE, hangs |-> TRUE, underflow |-> FALSE]
        ELSE IF index < 0
        THEN [h |-> h, result |-> FALSE, hangs |-> FALSE, underflow |-> FALSE]
        ELSE [h |-> [entries |-> es, count |-> h.count - 1],
              result |-> TRUE, hangs |-> FALSE, underflow |-> h.count = 0]

RECURSIVE ChainTail(_, _, _)
\* add: "find the end of the chain"
ChainTail(h, entry, fuel) ==
    IF h.entries[entry].next = -1 \/ fuel = 0 THEN entry
    ELSE ChainTail(h, h.entries[entry].next, fuel - 1)

\* no invalid slot is left: the free-slot scan of add would never end
TableFull(h) == \A i \in DOMAIN h.entries : is_valid(h.entries[i])

RECURSIVE FindFree(_, _)
\* add: "find a free entry", scanning forward and wrapping (some slot is free)
FindFree(h, free) ==
    LET f == IF free = capacity(h) THEN 0 ELSE free
    IN  IF ~is_valid(h.entries[f]) THEN f
        ELSE FindFree(h, f + 1)

RECURSIVE add(_, _, _)
RECURSIVE AddAll(_, _, _)
\* grow_entries: the loop over the old entries, from slot i
AddAll(h, old, i) ==
    IF i \notin DOMAIN old THEN h
    ELSE IF is_valid(old[i])
    THEN AddAll(add(h, old[i].name, as_property(old[i])), old, i + 1)
    ELSE AddAll(h, old, i + 1)

\* grow_entries asking for three times the capacity
grow_entries_triple(h) ==
    AddAll([entries |-> [i \in 0..(get_prime(capacity(h) * 3) - 1) |-> ZeroEntry],
            count |-> 0],
           h.entries, 0)

grow_entries(h) ==
    AddAll([entries |-> [i \in 0..(get_prime(capacity(h) * 2) - 1) |-> ZeroEntry],
            count |-> 0],
           h.entries, 0)

\* The u32 counter is kept as the signed reading of its word: -k stands for
\* 2^32 - k, the value a wrapping subtraction below zero leaves behind.
NeedsGrow(h) ==
    LET u32_gt(a, b) == a < 0 \/ a > b
        max_load_factor == (capacity(h) * 7) \div 10
    IN  u32_gt(h.count, max_load_factor)

\* add that evicts an interloper and does not insert it again
add_evict_only(h0, name, value) ==
    LET h == IF NeedsGrow(h0) THEN grow_entries(h0) ELSE h0
        hash == home(h, name)
    IN  IF is_valid(h.entries[hash]) /\ home(h, h.entries[hash].name) # hash
        THEN LET copy == h.entries[hash]
                 h1 == remove(h, copy.name).h
             IN  [entries |-> [h1.entries EXCEPT
                                 ![hash] = from_descriptor(value, name, -1)],
                  count |-> h1.count + 1]
        ELSE IF is_valid(h.entries[hash]) /\ TableFull(h)
        THEN h
        ELSE IF is_valid(h.entries[hash])
        THEN LET entry == ChainTail(h, hash, capacity(h))
                 free == FindFree(h, entry + 1)
             IN  [entries |-> [h.entries EXCEPT
                                 ![free] = from_descriptor(value, name, -1),
                                 ![entry].next = free],
                  count |-> h.count + 1]
        ELSE [entries |-> [h.entries EXCEPT
                             ![hash] = from_descriptor(value, name, -1)],
              count |-> h.count + 1]

add(h0, name, value) ==
    LET h == IF NeedsGrow(h0) THEN grow_entries(h0) ELSE h0
        hash == home(h, name)
    IN  IF is_valid(h.entries[hash]) /\ home(h, h.entries[hash].name) # hash
        THEN LET copy == h.entries[hash]
                 h1 == remove(h, copy.name).h
                 h2 == [entries |-> [h1.entries EXCEPT
                                       ![hash] = from_descriptor(value, name, -1)],
                        count |-> h1.count + 1]
             IN  add(h2, copy.name, as_property(copy))
        ELSE IF is_valid(h.entries[hash]) /\ TableFull(h)
        THEN h
        ELSE IF is_valid(h.entries[hash])
        THEN LET entry == ChainTail(h, hash, capacity(h))
                 free == FindFree(h, entry + 1)
             IN  [entries |-> [h.entries EXCEPT
                                 ![free] = from_descriptor(value, name, -1),
                                 ![entry].next = free],
                  count |-> h.count + 1]
        ELSE [entries |-> [h.entries EXCEPT
                             ![hash] = from_descriptor(value, name, -1)],
              count |-> h.count + 1]

RECURSIVE add_hangs(_, _, _)
\* add never returns: it reaches the free-slot scan with a full table (the
\* store add yields is then the one the scan spins on)
add_hangs(h0, name, value) ==
    LET h == IF NeedsGrow(h0) THEN grow_entries(h0) ELSE h0
        hash == home(h, name)
    IN  IF is_valid(h.entries[hash]) /\ home(h, h.entries[hash].name) # hash
        THEN LET copy == h.entries[hash]
                 h1 == remove(h, copy.name).h
                 h2 == [entries |-> [h1.entries EXCEPT
                                       ![hash] = from_descriptor(value, name, -1)],
                        count |-> h1.count + 1]
             IN  add_hangs(h2, copy.name, as_property(copy))
        ELSE is_valid(h.entries[hash]) /\ TableFull(h)

replace(h, name, value) ==
    IF find_entry(h, name) # None
    THEN LET index == find_entry(h, name)[1]
         IN  [h |-> [h EXCEPT !.entries[index] =
                        from_descriptor(value, h.entries[index].name,
                                        h.entries[index].next)],
              result |-> TRUE]
    ELSE [h |-> h, result |-> FALSE]

(***************************************************************************)
(* State of the hash store machine.                                        *)
(***************************************************************************)
VARIABLES
    hash,             \* the store: [entries, count]
    hstatus,          \* "running", "panic" (assert / overflow check), "hang"
    lastOp,           \* the last call on the store and what it returned
    overflow_checks,  \* build profile: TRUE when integer overflow panics
    ops               \* number of calls made so far

hvars == << hash, hstatus, lastOp, overflow_checks, ops >>

\* state of the heap machine
VARIABLES
    ptrs,      \* RootHandlesData.ptrs, slot i of the code is ptrs[i + 1]
    free,      \* RootHandlesData.free
    live,      \* the slot indices held by live Root handles
    scopes,    \* GcHeap.scopes: sequence of [current, cap, handles]
    stack,     \* the slots the extra root walker of the client walks
    objs,      \* the objects of the active semispace, by address
    active,    \* the active semispace, 0 or 1
    top,       \* words used in the active semispace
    gstatus,   \* "running" or "panic"
    lastGc,    \* what the last collection was shown and did
    gops,      \* number of calls made so far
    released,  \* the slot indices held by Root handles that were released
    lastCall,  \* the last call on the heap: what was asked, what came back
    finalizedLog  \* the finalize calls of all collections so far

gvars == << ptrs, free, live, scopes, stack, objs, active, top, gstatus,
            lastGc, gops, released, lastCall, finalizedLog >>

\* state of the calls into the runtime
VARIABLES
    frames,    \* the calls in progress: [fn, pc, depth0, scope]
    eresult    \* the last call that returned and the scope depth it left

\* the RefCells of GcHeap: handles.data, scopes and heap, each "free",
\* "shared" (borrow) or "mut" (borrow_mut)
VARIABLES
    borrows

\* state of the object operations of rt/mod.rs
VARIABLES
    chain,     \* the object a call is made on (chain[1]) and its prototypes:
               \* chain[k + 1] is the prototype of chain[k]
    rtcall     \* the last call: what it was given, returned and called

rvars == << chain, rtcall >>

vars == << hvars, gvars, frames, eresult, borrows, rvars >>

\* the record of the last collection before any has run
NoGc == [ran |-> FALSE, before |-> << >>, after |-> << >>,
         fromObjs |-> << >>, toObjs |-> << >>, fwd |-> << >>,
         presented |-> << >>, copies |-> << >>, exhausted |-> TRUE,
         finalized |-> << >>]

\* the panic messages of gc/mod.rs; NoPanic when the call returned
NoPanic == ""
panics ==
    [NO_SCOPE |-> "no local scope present",
     ALLOC |-> "could not allocate memory after GC",
     SCOPE_ORDER |-> "local scopes must be destoryed in the order they are created",
     ROOT |-> "root is not valid anymore",
     ASSERT |-> "assertion failed",
     BORROW |-> "already borrowed"]

\* a call on the heap: the operation, its argument, what it returned and
\* the panic that ended it
Call(op, arg, ret, panic, alloc) ==
    [op |-> op, arg |-> arg, ret |-> ret, panic |-> panic, alloc |-> alloc]

NoArg == << >>

\* what a call asked of alloc_raw: the size of the block, the collections
\* and attempts it took and the address it returned
AllocInfo(a) ==
    [size |-> a.size, collections |-> a.collections, attempts |-> a.attempts,
     addr |-> a.addr]

NoAlloc == [size |-> 0, collections |-> 0, attempts |-> 0, addr |-> 0]

NoCall == Call("new", NoArg, NoArg, NoPanic, NoAlloc)

\* no RefCell of the heap is borrowed
NoBorrows == [handles |-> "free", scopes |-> "free", heap |-> "free"]

\* no call into the runtime has returned yet
NoResult == [fn |-> "none", result |-> "none", depth0 |-> 0, depth |-> 0,
             opened |-> FALSE]

NoOp == [op |-> "new", name |-> 0, value |-> default, result |-> FALSE,
         grew |-> FALSE, before |-> 0, path |-> "none", present |-> FALSE]

RECURSIVE Fill(_, _, _)
\* the set-up loop of tests::requires_grow: add Name(i) for i in from..n-1
Fill(h, from, n) ==
    IF from >= n THEN h
    ELSE LET new_simple_value(value) == new_value(value, TRUE, TRUE, TRUE)
         IN  Fill(add(h, from, new_simple_value(1)), from + 1, n)

HashInit ==
    \* capacities requested from Hash::new
    LET InitialCapacities == {3, 7}
    IN
    /\ hash \in {Fill(HashNew(c), 0, n) : c \in InitialCapacities, n \in 0..MaxFill}
               \* a store of three names after remove(k) was called twice, as in
               \* tests::add_and_remove_middle
               \cup {remove(remove(Fill(HashNew(3), 0, 3), k).h, k).h : k \in 0..2}
    /\ hstatus = "running"
    /\ ops = 0
    /\ lastOp = NoOp
    /\ overflow_checks \in BOOLEAN
    \* the heap as constructed, never used by this machine
    /\ scopes = << >>
    /\ objs = << >>
    /\ top = 0
    /\ ptrs = << >>
    /\ free = << >>
    /\ live = {}
    /\ stack = << >>
    /\ active = 0
    /\ gstatus = "running"
    /\ lastGc = NoGc
    /\ gops = 0
    /\ released = {}
    /\ lastCall = NoCall
    /\ finalizedLog = << >>
    /\ frames = << >>
    /\ eresult = NoResult
    /\ borrows = NoBorrows
    /\ chain = << >>
    /\ rtcall = [op |-> "none", count |-> 0]

\* one more call on the store of a running program; the heap machine stands
\* still
HashStep ==
    /\ hstatus = "running"
    /\ ops < MaxOps
    /\ ops' = ops + 1
    /\ UNCHANGED << gvars, frames, eresult, borrows, rvars >>

\* Hash::add on a name that is not present
HashAdd(name, value) ==
    \* which branch of add places the new entry (after any growth)
    LET AddPath(h0, n) ==
            LET h == IF NeedsGrow(h0) THEN grow_entries(h0) ELSE h0
                hash_ == home(h, n)
            IN  IF is_valid(h.entries[hash_]) /\ home(h, h.entries[hash_].name) # hash_
                THEN "evict"
                ELSE IF is_valid(h.entries[hash_]) THEN "chain" ELSE "home"
    IN
    /\ HashStep
    /\ find_entry(hash, name) = None
    /\ NeedsGrow(hash) => get_prime(capacity(hash) * 2) <= MaxCapacity
    /\ hash' = add(hash, name, value)
    /\ hstatus' = IF add_hangs(hash, name, value) THEN "hang" ELSE "running"
    /\ lastOp' = [op |-> "add", name |-> name, value |-> value,
                  result |-> ~add_hangs(hash, name, value),
                  grew |-> NeedsGrow(hash), before |-> capacity(hash),
                  path |-> AddPath(hash, name), present |-> FALSE]
    /\ UNCHANGED overflow_checks

\* Hash::add on a name that is present: the assertion at its head fails
HashAddPresent(name, value) ==
    /\ HashStep
    /\ find_entry(hash, name) # None
    /\ hstatus' = "panic"
    /\ lastOp' = [op |-> "add", name |-> name, value |-> value, result |-> FALSE,
                  grew |-> FALSE, before |-> capacity(hash),
                  path |-> "assert", present |-> TRUE]
    /\ UNCHANGED << hash, overflow_checks >>

\* Hash::remove
HashRemove(name) ==
    \* which branch of remove is taken
    LET RemovePath(t, n) ==
            LET w == RemoveWalk(t, n, -1, home(t, n), capacity(t))
            IN  IF w.hangs THEN "hang"
                ELSE IF w.index < 0 THEN "missing"
                ELSE IF w.last # -1 THEN "splice"
                ELSE IF t.entries[w.index].next # -1 THEN "head_next"
                ELSE "head_only"
    IN
    /\ HashStep
    /\ LET r == remove(hash, name)
       IN  /\ r.h.count >= 0 - MaxUnderflow
           /\ hash' = IF r.underflow /\ overflow_checks
                      THEN [r.h EXCEPT !.count = hash.count]
                      ELSE r.h
           /\ hstatus' = IF r.hangs THEN "hang"
                         ELSE IF r.underflow /\ overflow_checks THEN "panic"
                         ELSE "running"
           /\ lastOp' = [op |-> "remove", name |-> name, value |-> default,
                         result |-> r.result, grew |-> FALSE,
                         before |-> capacity(hash),
                         path |-> RemovePath(hash, name),
                         present |-> find_entry(hash, name) # None]
    /\ UNCHANGED overflow_checks

\* Hash::replace
HashReplace(name, value) ==
    /\ HashStep
    /\ LET r == replace(hash, name, value)
       IN  /\ hash' = r.h
           /\ lastOp' = [op |-> "replace", name |-> name, value |-> value,
                         result |-> r.result, grew |-> FALSE,
                         before |-> capacity(hash), path |-> "replace",
                         present |-> find_entry(hash, name) # None]
    /\ UNCHANGED << hstatus, overflow_checks >>

HashNext ==
    \/ \E name \in Names, value \in Descriptors : HashAdd(name, value)
    \/ \E name \in Names, value \in Descriptors : HashAddPresent(name, value)
    \/ \E name \in Names : HashRemove(name)
    \/ \E name \in Names, value \in Descriptors : HashReplace(name, value)

(***************************************************************************)
(* gc/mod.rs: the handle side of the collector.                            *)
(*                                                                         *)
(* An address is a positive integer, 0 is the null pointer.  The heap has  *)
(* two semispaces of SemiSize words; an object takes one header word and   *)
(* its payload words, and is known by the address of its first payload     *)
(* word.                                                                   *)
(***************************************************************************)
INITIAL_LOCAL_SCOPE_CAPACITY == 8

\* words in one semispace
SemiSize == 8
\* slots of the root table
MaxRoots == 2
\* depth of the local scope stack
MaxScopes == 2
\* slots registered in one scope
MaxLocals == 9
\* slots of the interpreter stack handed out by create_root_walkers
MaxStack == 1
\* number of calls made on the heap after it was set up
MaxGcOps == 3

Null == 0

\* the object types of the model and their payload sizes in words
TY_LEAF == 0
TY_PAIR == 1
Types == {TY_LEAF, TY_PAIR}
PayloadWords(ty) == IF ty = TY_PAIR THEN 2 ELSE 1

\* GcWalker::walk for the two types: a pair holds a pointer in word 0 and
\* plain data in word 1, a leaf holds plain data only
walk(ty, index) ==
    IF ty = TY_PAIR /\ index = 0 THEN "Pointer"
    ELSE IF ty = TY_PAIR /\ index = 1 THEN "Skip"
    ELSE "End"

\* plain data written into a Skip word; 2 is also the address of an object
DataWords == {0, 2}

\* elements of the longest array allocated
MaxArrayLen == 4
\* the array lengths a program asks for
ArrayLens == {2, MaxArrayLen}

\* words an object takes in a semispace: the header, the length word of an
\* array, the payload
ObjSize(o) == 1 + (IF o.array THEN 1 ELSE 0) + Len(o.words)

\* GcWalker::finalize of the client: leaves have a finalizer, pairs have none
finalize(ty) == IF ty = TY_LEAF THEN "Finalized" ELSE "NotFinalizable"

\* LocalScopeData::new
LocalScopeData_new ==
    [current |-> << >>, cap |-> INITIAL_LOCAL_SCOPE_CAPACITY, handles |-> << >>]

\* LocalScopeData::grow retiring a zeroed copy of the full vector
LocalScopeData_grow_cleared(d) ==
    [current |-> << >>, cap |-> d.cap * 2,
     handles |-> Append(d.handles, [i \in 1..Len(d.current) |-> Null])]

\* LocalScopeData::grow
LocalScopeData_grow(d) ==
    [current |-> << >>, cap |-> d.cap * 2, handles |-> Append(d.handles, d.current)]

\* LocalScopeData::add
LocalScopeData_add(d, ptr) ==
    LET g == IF Len(d.current) = d.cap THEN LocalScopeData_grow(d) ELSE d
    IN  [g EXCEPT !.current = Append(@, ptr)]

\* RootHandles::add taking the oldest index of the free list
RootHandles_add_fifo(ps, fr, ptr) ==
    IF fr # << >>
    THEN IF ps[fr[1] + 1] = Null
         THEN [ptrs |-> [ps EXCEPT ![fr[1] + 1] = ptr],
               free |-> SubSeq(fr, 2, Len(fr)),
               index |-> fr[1], ok |-> TRUE]
         ELSE [ptrs |-> ps, free |-> SubSeq(fr, 2, Len(fr)),
               index |-> fr[1], ok |-> FALSE]
    ELSE [ptrs |-> Append(ps, ptr), free |-> fr, index |-> Len(ps),
          ok |-> TRUE]

\* RootHandles::add: the new table, free list and the index handed out;
\* ok is the assert_eq on the slot popped from the free list, and a failed
\* assert leaves the table as it was, the index already popped
RootHandles_add(ps, fr, ptr) ==
    IF fr # << >>
    THEN IF ps[fr[Len(fr)] + 1] = Null
         THEN [ptrs |-> [ps EXCEPT ![fr[Len(fr)] + 1] = ptr],
               free |-> SubSeq(fr, 1, Len(fr) - 1),
               index |-> fr[Len(fr)], ok |-> TRUE]
         ELSE [ptrs |-> ps, free |-> SubSeq(fr, 1, Len(fr) - 1),
               index |-> fr[Len(fr)], ok |-> FALSE]
    ELSE [ptrs |-> Append(ps, ptr), free |-> fr, index |-> Len(ps),
          ok |-> TRUE]

\* RootHandles::remove
RootHandles_remove(ps, fr, handle) ==
    [ptrs |-> [ps EXCEPT ![handle + 1] = Null],
     free |-> Append(fr, handle),
     ptr |-> ps[handle + 1]]

\* clone_root handing out the slot of the Root it clones
RootHandles_clone_root_shared(ps, fr, handle) ==
    [ptrs |-> ps, free |-> fr, index |-> handle, ok |-> TRUE]

\* RootHandles::clone_root
RootHandles_clone_root(ps, fr, handle) == RootHandles_add(ps, fr, ps[handle + 1])

(***************************************************************************)
(* A Local is the address of a slot in one of the vectors of a scope.  A   *)
(* vector never moves once allocated: push stays within its capacity and   *)
(* grow swaps in another vector.  The vectors of a scope are numbered in   *)
(* the order they were allocated, so vector b is handles[b] of the code    *)
(* once it was retired and current while it is the latest; the Local is    *)
(* << scope, b, index >>.                                                  *)
(***************************************************************************)
\* the Local for the slot LocalScopeData::add just pushed in scope s
Local_new(s, d) == << s, Len(d.handles), Len(d.current) - 1 >>

\* Deref for Local: the address in the slot the Local points to
Local_deref(sc, l) ==
    LET d == sc[l[1] + 1]
    IN  IF l[2] < Len(d.handles)
        THEN d.handles[l[2] + 1][l[3] + 1]
        ELSE d.current[l[3] + 1]

\* alloc_local_from_any_ptr opening a scope when none is live
alloc_local_from_any_ptr_opens(sc, ptr) ==
    LET sc1 == IF Len(sc) = 0 THEN << LocalScopeData_new >> ELSE sc
        d == LocalScopeData_add(sc1[Len(sc1)], ptr)
    IN  [scopes |-> [sc1 EXCEPT ![Len(sc1)] = d],
         local |-> Local_new(Len(sc1) - 1, d), panic |-> NoPanic]

\* GcHeap::alloc_local_from_any_ptr / alloc_array_local_from_ptr: the scope
\* stack afterwards, the Local handed out and the panic
alloc_local_from_any_ptr(sc, ptr) ==
    IF Len(sc) = 0
    THEN [scopes |-> sc, local |-> NoArg, panic |-> panics.NO_SCOPE]
    ELSE LET d == LocalScopeData_add(sc[Len(sc)], ptr)
         IN  [scopes |-> [sc EXCEPT ![Len(sc)] = d],
              local |-> Local_new(Len(sc) - 1, d), panic |-> NoPanic]

\* GcHeap::new_local_scope: the scope stack and the index of the LocalScope
new_local_scope(sc) ==
    [scopes |-> Append(sc, LocalScopeData_new), index |-> Len(sc)]

\* GcHeap::drop_current_scope without the test of the index
drop_current_scope_any(sc, index) ==
    [scopes |-> SubSeq(sc, 1, Len(sc) - 1), panic |-> NoPanic]

\* GcHeap::drop_current_scope
drop_current_scope(sc, index) ==
    IF Len(sc) # index + 1
    THEN [scopes |-> sc, panic |-> panics.SCOPE_ORDER]
    ELSE [scopes |-> SubSeq(sc, 1, Len(sc) - 1), panic |-> NoPanic]

(***************************************************************************)
(* Root slots are named <<"root", i, 0, 0>>, <<"local", scope, vec, index>>*)
(* and <<"stack", i, 0, 0>>; vec 0 is the current vector of a scope and    *)
(* vec v > 0 is handles[v - 1].                                            *)
(***************************************************************************)
NullSlot == << "null", 0, 0, 0 >>

ScopeVec(d, vec) == IF vec = 0 THEN d.current ELSE d.handles[vec]

SlotGet(r, slot) ==
    IF slot[1] = "root" THEN r.ptrs[slot[2] + 1]
    ELSE IF slot[1] = "local"
    THEN ScopeVec(r.scopes[slot[2] + 1], slot[3])[slot[4] + 1]
    ELSE r.stack[slot[2] + 1]

\* RootHandlesWalker::next without the null test
RootHandlesWalker_next_nulls(w, ps) ==
    IF w.ptr < w.end
    THEN [ret |-> << "root", w.ptr, 0, 0 >>, w |-> [w EXCEPT !.ptr = @ + 1]]
    ELSE [ret |-> NullSlot, w |-> w]

RECURSIVE RootHandlesWalker_next(_, _)
\* RootHandlesWalker::next over the root table ps: the slot returned (or
\* NullSlot) and the walker afterwards
RootHandlesWalker_next(w, ps) ==
    IF w.ptr < w.end
    THEN IF ps[w.ptr + 1] # Null
         THEN [ret |-> << "root", w.ptr, 0, 0 >>, w |-> [w EXCEPT !.ptr = @ + 1]]
         ELSE RootHandlesWalker_next([w EXCEPT !.ptr = @ + 1], ps)
    ELSE [ret |-> NullSlot, w |-> w]

RECURSIVE LocalScopesWalker_next_ge(_, _)
\* LocalScopesWalker::next leaving a scope one vector early (>= for >)
LocalScopesWalker_next_ge(w, sc) ==
    IF w.scope = Len(sc)
    THEN [ret |-> NullSlot, w |-> w]
    ELSE IF w.vec >= Len(sc[w.scope + 1].handles)
    THEN LocalScopesWalker_next_ge([w EXCEPT !.vec = 0, !.scope = @ + 1], sc)
    ELSE IF w.index >= Len(ScopeVec(sc[w.scope + 1], w.vec))
    THEN LocalScopesWalker_next_ge([w EXCEPT !.index = 0, !.vec = @ + 1], sc)
    ELSE [ret |-> << "local", w.scope, w.vec, w.index >>,
          w |-> [w EXCEPT !.index = @ + 1]]

RECURSIVE LocalScopesWalker_next(_, _)
\* LocalScopesWalker::next over the scope stack sc
LocalScopesWalker_next(w, sc) ==
    IF w.scope = Len(sc)
    THEN [ret |-> NullSlot, w |-> w]
    ELSE IF w.vec > Len(sc[w.scope + 1].handles)
    THEN LocalScopesWalker_next([w EXCEPT !.vec = 0, !.scope = @ + 1], sc)
    ELSE IF w.index >= Len(ScopeVec(sc[w.scope + 1], w.vec))
    THEN LocalScopesWalker_next([w EXCEPT !.index = 0, !.vec = @ + 1], sc)
    ELSE [ret |-> << "local", w.scope, w.vec, w.index >>,
          w |-> [w EXCEPT !.index = @ + 1]]

\* GcWalker::create_root_walkers of the client
create_root_walkers(st) ==
    IF st # << >> THEN << [kind |-> "stack", index |-> 0] >> ELSE << >>

\* GcRootWalker::next, dispatched on the walker
Walker_next(w, r) ==
    \* the extra walker of the client: one slot per entry of the stack
    LET StackWalker_next(sw, st) ==
            IF sw.index < Len(st)
            THEN [ret |-> << "stack", sw.index, 0, 0 >>,
                  w |-> [sw EXCEPT !.index = @ + 1]]
            ELSE [ret |-> NullSlot, w |-> sw]
    IN
    IF w.kind = "roots" THEN RootHandlesWalker_next(w, r.ptrs)
    ELSE IF w.kind = "locals" THEN LocalScopesWalker_next(w, r.scopes)
    ELSE StackWalker_next(w, r.stack)

\* gc that adds the scope walker only for nested scopes
GcWalkers_nested(r, fr) ==
    create_root_walkers(r.stack)
    \o (IF Len(r.ptrs) # Len(fr)
        THEN << [kind |-> "roots", ptr |-> 0, end |-> Len(r.ptrs)] >>
        ELSE << >>)
    \o (IF Len(r.scopes) > 1
        THEN << [kind |-> "locals", scope |-> 0, vec |-> 0, index |-> 0] >>
        ELSE << >>)

\* GcHeap::gc: the walkers handed to the collector
GcWalkers(r, fr) ==
    create_root_walkers(r.stack)
    \o (IF Len(r.ptrs) # Len(fr)
        THEN << [kind |-> "roots", ptr |-> 0, end |-> Len(r.ptrs)] >>
        ELSE << >>)
    \o (IF Len(r.scopes) > 0
        THEN << [kind |-> "locals", scope |-> 0, vec |-> 0, index |-> 0] >>
        ELSE << >>)

(***************************************************************************)
(* The copying collector (spec 4.1): roots are forwarded in the order the  *)
(* walkers present them, then the copied objects are scanned in copy       *)
(* order.  A collection state c holds the root slots, the from-space       *)
(* objects, the to-space objects, the forwarding pointers, the to-space    *)
(* fill, the copy order and the log of slots presented.                    *)
(***************************************************************************)
SpaceBase(space) == space * SemiSize

\* forward one address: copy its object unless it was copied before
Forward(c, addr) ==
    IF addr = Null \/ addr \notin DOMAIN c.from
    THEN [c |-> c, addr |-> addr]
    ELSE IF addr \in DOMAIN c.fwd
    THEN [c |-> c, addr |-> c.fwd[addr]]
    ELSE LET new == SpaceBase(c.space) + c.top + 2
             o == c.from[addr]
         IN  [c |-> [c EXCEPT !.to = (new :> o) @@ @,
                              !.fwd = (addr :> new) @@ @,
                              !.top = @ + ObjSize(o),
                              !.order = Append(@, new),
                              !.copies = Append(@, addr)],
              addr |-> new]

\* forward the target of a root slot and rewrite the slot
ForwardSlot(c, slot) ==
    LET SlotSet(rs, sl, v) ==
            IF sl[1] = "root" THEN [rs EXCEPT !.ptrs[sl[2] + 1] = v]
            ELSE IF sl[1] = "local"
            THEN IF sl[3] = 0
                 THEN [rs EXCEPT !.scopes[sl[2] + 1].current[sl[4] + 1] = v]
                 ELSE [rs EXCEPT !.scopes[sl[2] + 1].handles[sl[3]][sl[4] + 1] = v]
            ELSE [rs EXCEPT !.stack[sl[2] + 1] = v]
    IN
    LET f == Forward(c, SlotGet(c.roots, slot))
    IN  [f.c EXCEPT !.roots = SlotSet(f.c.roots, slot, f.addr),
                    !.presented = Append(@, slot)]

RECURSIVE DrainWalker(_, _)
\* call next on one walker until it returns null
DrainWalker(c, w) ==
    LET n == Walker_next(w, c.roots)
    IN  IF n.ret = NullSlot
        THEN [c EXCEPT !.exhausted =
                  @ /\ Walker_next(n.w, c.roots).ret = NullSlot]
        ELSE DrainWalker(ForwardSlot(c, n.ret), n.w)

RECURSIVE DrainWalkers(_, _, _)
DrainWalkers(c, ws, k) ==
    IF k > Len(ws) THEN c
    ELSE DrainWalkers(DrainWalker(c, ws[k]), ws, k + 1)

RECURSIVE ScanWords(_, _, _)
\* scan the words of the copied object at address a, from word index i; the
\* elements of an array are walked one after the other, End moving on to
\* the next element
ScanWords(c, a, i) ==
    LET o == c.to[a]
        w == walk(o.ty, i % PayloadWords(o.ty))
    IN  IF i >= Len(o.words) THEN c
        ELSE IF w = "End"
        THEN IF o.array
             THEN ScanWords(c, a, (i \div PayloadWords(o.ty) + 1) * PayloadWords(o.ty))
             ELSE c
        ELSE IF w = "Pointer"
        THEN LET f == Forward(c, o.words[i + 1])
             IN  ScanWords([f.c EXCEPT !.to[a].words[i + 1] = f.addr], a, i + 1)
        ELSE ScanWords(c, a, i + 1)

RECURSIVE ScanFrom(_, _)
\* scan the copied objects in copy order, from position k
ScanFrom(c, k) ==
    IF k > Len(c.order) THEN c
    ELSE ScanFrom(ScanWords(c, c.order[k], 0), k + 1)

\* the number of elements of an array
ArrayLen(o) == Len(o.words) \div PayloadWords(o.ty)

RECURSIVE FinalizeArray(_, _, _)
\* the finalize calls for the elements of a freed array, from element e on:
\* one per element until the walker answers NotFinalizable
FinalizeArray(o, addr, e) ==
    IF e >= ArrayLen(o) THEN << >>
    ELSE LET call == [ty |-> o.ty, obj |-> addr, id |-> o.id, elem |-> e,
                      ptr |-> addr + 1 + e * PayloadWords(o.ty)]
         IN  IF finalize(o.ty) = "Finalized"
             THEN << call >> \o FinalizeArray(o, addr, e + 1)
             ELSE << call >>

\* the finalize calls for one freed object
FinalizeObject(o, addr) ==
    IF o.array THEN FinalizeArray(o, addr, 0)
    ELSE << [ty |-> o.ty, obj |-> addr, id |-> o.id, elem |-> 0, ptr |-> addr] >>

RECURSIVE Sweep_all(_, _, _)
\* finalize calls for every object of from-space, copied or not
Sweep_all(c, a, last) ==
    IF a > last THEN << >>
    ELSE (IF a \in DOMAIN c.from
          THEN FinalizeObject(c.from[a], a) ELSE << >>)
         \o Sweep_all(c, a + 1, last)

RECURSIVE Sweep(_, _, _)
\* the finalize calls of a collection: the objects of from-space that were
\* not copied, in address order from a to last
Sweep(c, a, last) ==
    IF a > last THEN << >>
    ELSE (IF a \in DOMAIN c.from /\ a \notin DOMAIN c.fwd
          THEN FinalizeObject(c.from[a], a) ELSE << >>)
         \o Sweep(c, a + 1, last)

\* Copying::gc
Collect(r, fr, from, space) ==
    LET c0 == [roots |-> r, from |-> from, to |-> << >>, fwd |-> << >>,
               space |-> 1 - space, top |-> 0, order |-> << >>,
               copies |-> << >>, presented |-> << >>, exhausted |-> TRUE,
               finalized |-> << >>]
        c1 == ScanFrom(DrainWalkers(c0, GcWalkers(r, fr), 1), 1)
    IN  [c1 EXCEPT !.finalized = Sweep(c1, 1, 2 * SemiSize + 2)]

(***************************************************************************)
(* The heap machine.                                                       *)
(***************************************************************************)
Roots == [ptrs |-> ptrs, scopes |-> scopes, stack |-> stack]

GcLog(r, fr, from, c) ==
    [ran |-> TRUE, before |-> r, after |-> c.roots,
     fromObjs |-> from, toObjs |-> c.to, fwd |-> c.fwd,
     presented |-> c.presented, copies |-> c.copies,
     exhausted |-> c.exhausted, finalized |-> c.finalized]

\* Copying::alloc_raw (spec 4.1): bump the fill t of a semispace by size
\* words; the address of the header, or null when the block does not fit
Copying_alloc_raw(space, t, size) ==
    IF t + size <= SemiSize THEN SpaceBase(space) + t + 1 ELSE Null

\* what an allocation did to the heap: the panic, the root slots, objects,
\* semispace and fill afterwards, the address past the header, the record
\* of the collection, and how many collections and attempts it took
Allocation(size, panic, r, os, space, t, addr, log, collections, attempts) ==
    [size |-> size, panic |-> panic, roots |-> r, objs |-> os,
     active |-> space, top |-> t, addr |-> addr, log |-> log,
     collections |-> collections, attempts |-> attempts]

\* no allocation: the heap as it is and the address given
NoAllocation(addr) ==
    Allocation(0, NoPanic, Roots, objs, active, top, addr, NoGc, 0, 0)

\* GcHeap::alloc_raw retrying the allocation without the panic: null is
\* handed back when the retry fails
alloc_raw_null(size) ==
    LET first == Copying_alloc_raw(active, top, size)
        c == Collect(Roots, free, objs, active)
        second == Copying_alloc_raw(c.space, c.top, size)
    IN  IF first # Null
        THEN Allocation(size, NoPanic, Roots, objs, active, top + size, first + 1,
                        NoGc, 0, 1)
        ELSE IF second # Null
        THEN Allocation(size, NoPanic, c.roots, c.to, c.space, c.top + size,
                        second + 1, GcLog(Roots, free, objs, c), 1, 2)
        ELSE Allocation(size, NoPanic, c.roots, c.to, c.space, c.top, Null,
                        GcLog(Roots, free, objs, c), 1, 2)

\* GcHeap::alloc_raw for a block of size words: when the block does not
\* fit, collect and retry once
alloc_raw(size) ==
    LET first == Copying_alloc_raw(active, top, size)
        c == Collect(Roots, free, objs, active)
        second == Copying_alloc_raw(c.space, c.top, size)
    IN  IF first # Null
        THEN Allocation(size, NoPanic, Roots, objs, active, top + size, first + 1,
                        NoGc, 0, 1)
        ELSE IF second # Null
        THEN Allocation(size, NoPanic, c.roots, c.to, c.space, c.top + size,
                        second + 1, GcLog(Roots, free, objs, c), 1, 2)
        ELSE Allocation(size, panics.ALLOC, c.roots, c.to, c.space, c.top, Null,
                        GcLog(Roots, free, objs, c), 1, 2)

\* the payload of a new object: pointer words null, data words as given;
\* id tells the objects of a run apart, it is the number of the call that
\* allocated the object
\* GcMemHeader::new: the type in bits 1..7, the size in bits 8..31, the
\* array flag in bit 0
GcMemHeader_new(ty, size, is_array_) ==
    (ty % 128) * 2 + (size % 16777216) * 256 + (IF is_array_ THEN 1 ELSE 0)

get_type_id(header) == (header \div 2) % 128

get_size(header) == (header \div 256) % 16777216

is_array(header) == header % 2 # 0

\* a new object as alloc leaves it: the header written, the payload as the
\* client fills it; size_of::<T>() rounded up to words is PayloadWords(ty)
\* words of 8 bytes
NewObject(ty, data, id) ==
    [ty |-> ty, words |-> IF ty = TY_PAIR THEN << Null, data >> ELSE << data >>,
     array |-> FALSE, id |-> id,
     header |-> GcMemHeader_new(ty, PayloadWords(ty) * 8, FALSE)]

RECURSIVE Elements(_, _)
Elements(ty, n) ==
    IF n = 0 THEN << >>
    ELSE (IF ty = TY_PAIR THEN << Null, 0 >> ELSE << 0 >>) \o Elements(ty, n - 1)

\* a new array of n zeroed elements
NewArray(ty, n, id) ==
    [ty |-> ty, words |-> Elements(ty, n), array |-> TRUE, id |-> id,
     \* item_size is what alloc_array hands to GcMemHeader::new
     header |-> GcMemHeader_new(ty, PayloadWords(ty) * 8, TRUE)]

\* GcHeap::alloc: a block for the header and the payload, the header written
alloc(ty, data) ==
    LET a == alloc_raw(1 + PayloadWords(ty))
    IN  IF a.panic # NoPanic \/ a.addr = Null THEN a
        ELSE [a EXCEPT !.objs = (a.addr :> NewObject(ty, data, gops)) @@ @]

\* GcHeap::alloc_array: a block for the header, the length word and the
\* elements
alloc_array(ty, size) ==
    LET a == alloc_raw(1 + 1 + size * PayloadWords(ty))
    IN  IF a.panic # NoPanic \/ a.addr = Null THEN a
        ELSE [a EXCEPT !.objs = (a.addr :> NewArray(ty, size, gops)) @@ @]

LocalSlotsOf(sc) ==
    UNION {UNION {{<< "local", s - 1, v, i - 1 >> :
                      i \in 1..Len(ScopeVec(sc[s], v))} :
                  v \in 0..Len(sc[s].handles)} :
           s \in 1..Len(sc)}

StackSlotsOf(st) == {<< "stack", i - 1, 0, 0 >> : i \in 1..Len(st)}

\* the slots a running program holds a handle on
HandleSlots ==
    LET RootSlots == {<< "root", i, 0, 0 >> : i \in live}
    IN  RootSlots \cup LocalSlotsOf(scopes) \cup StackSlotsOf(stack)

RECURSIVE SumLen(_, _)
SumLen(vs, k) == IF k > Len(vs) THEN 0 ELSE Len(vs[k]) + SumLen(vs, k + 1)

\* the number of slots registered in a scope
NumLocals(d) == Len(d.current) + SumLen(d.handles, 1)

\* the objects and array elements the finalize calls of a collection name
FinalizedIds(calls) == [k \in 1..Len(calls) |-> << calls[k].id, calls[k].elem >>]

\* one more call on the heap of a running program; the hash store machine
\* stands still
GcStep ==
    /\ gstatus = "running"
    /\ gops < MaxGcOps
    /\ gops' = gops + 1
    /\ UNCHANGED << hvars, frames, eresult, borrows, rvars >>

\* a call that leaves the heap and the root table alone
HeapUnchanged ==
    /\ lastGc' = NoGc
    /\ UNCHANGED << objs, active, top, finalizedLog >>

\* GcHeap::new_local_scope
NewLocalScope ==
    /\ GcStep
    /\ Len(scopes) < MaxScopes
    /\ scopes' = new_local_scope(scopes).scopes
    /\ lastCall' = Call("new_local_scope", NoArg,
                        << new_local_scope(scopes).index >>, NoPanic, NoAlloc)
    /\ HeapUnchanged
    /\ UNCHANGED << ptrs, free, live, released, stack, gstatus >>

\* Drop for LocalScope: GcHeap::drop_current_scope with the index of the
\* scope the LocalScope was created for
DropScope(index) ==
    /\ GcStep
    /\ index \in 0..(Len(scopes) - 1)
    /\ LET d == drop_current_scope(scopes, index)
       IN  /\ scopes' = d.scopes
           /\ gstatus' = IF d.panic # NoPanic THEN "panic" ELSE gstatus
           /\ lastCall' = Call("drop_scope", << index >>, NoArg, d.panic, NoAlloc)
    /\ HeapUnchanged
    /\ UNCHANGED << ptrs, free, live, released, stack >>

\* a Local for the block of an allocation a: alloc_local_from_ptr and
\* alloc_array_local_from_ptr on what alloc and alloc_array returned
LocalFor(a, op, arg) ==
    LET l == alloc_local_from_any_ptr(a.roots.scopes, a.addr)
        panic == IF a.panic # NoPanic THEN a.panic ELSE l.panic
    IN  /\ gstatus' = IF panic # NoPanic THEN "panic" ELSE gstatus
        /\ objs' = a.objs
        /\ active' = a.active
        /\ top' = a.top
        /\ ptrs' = a.roots.ptrs
        /\ stack' = a.roots.stack
        /\ scopes' = IF a.panic # NoPanic THEN a.roots.scopes ELSE l.scopes
        /\ lastGc' = a.log
        /\ finalizedLog' = finalizedLog \o FinalizedIds(a.log.finalized)
        /\ lastCall' = Call(op, arg,
                            IF panic = NoPanic THEN l.local ELSE NoArg,
                            panic, AllocInfo(a))
        /\ UNCHANGED << free, live, released >>

\* a Root for the block of an allocation a: Root::new and ArrayRoot::new
\* register the address with RootHandles::add
RootFor(a, op, arg) ==
    LET h == RootHandles_add(a.roots.ptrs, free, a.addr)
        panic == IF a.panic # NoPanic THEN a.panic
                 ELSE IF h.ok THEN NoPanic ELSE panics.ASSERT
    IN  /\ gstatus' = IF panic # NoPanic THEN "panic" ELSE gstatus
        /\ objs' = a.objs
        /\ active' = a.active
        /\ top' = a.top
        /\ stack' = a.roots.stack
        /\ scopes' = a.roots.scopes
        /\ ptrs' = IF a.panic # NoPanic THEN a.roots.ptrs ELSE h.ptrs
        /\ free' = IF a.panic # NoPanic THEN free ELSE h.free
        /\ live' = IF panic # NoPanic THEN live ELSE live \cup {h.index}
        /\ lastGc' = a.log
        /\ finalizedLog' = finalizedLog \o FinalizedIds(a.log.finalized)
        /\ lastCall' = Call(op, arg,
                            IF panic = NoPanic THEN << h.index >> ELSE NoArg,
                            panic, AllocInfo(a))
        /\ UNCHANGED released

\* GcHeap::alloc_local
AllocLocal(ty, data) ==
    /\ GcStep
    /\ Len(scopes) > 0 => NumLocals(scopes[Len(scopes)]) < MaxLocals
    /\ LocalFor(alloc(ty, data), "alloc_local", << ty >>)

\* GcHeap::alloc_array_local
AllocArrayLocal(ty, size) ==
    /\ GcStep
    /\ Len(scopes) > 0 => NumLocals(scopes[Len(scopes)]) < MaxLocals
    /\ LocalFor(alloc_array(ty, size), "alloc_array_local", << ty, size >>)

\* GcHeap::alloc_root
AllocRoot(ty, data) ==
    /\ GcStep
    /\ Cardinality(live) < MaxRoots
    /\ RootFor(alloc(ty, data), "alloc_root", << ty >>)

\* GcHeap::alloc_array_root
AllocArrayRoot(ty, size) ==
    /\ GcStep
    /\ Cardinality(live) < MaxRoots
    /\ RootFor(alloc_array(ty, size), "alloc_array_root", << ty, size >>)

\* alloc_local_from_root / alloc_local_from_ptr: a Local for the object a
\* handle refers to
LocalFrom(slot) ==
    /\ GcStep
    /\ Len(scopes) > 0 => NumLocals(scopes[Len(scopes)]) < MaxLocals
    /\ SlotGet(Roots, slot) # Null
    /\ LocalFor(NoAllocation(SlotGet(Roots, slot)),
                IF slot[1] = "root" THEN "alloc_local_from_root"
                ELSE "alloc_local_from_ptr", slot)

\* alloc_root_from_local: a Root for the object a Local or a stack slot
\* refers to
RootFrom(slot) ==
    /\ GcStep
    /\ Cardinality(live) < MaxRoots
    /\ slot[1] # "root"
    /\ SlotGet(Roots, slot) # Null
    /\ RootFor(NoAllocation(SlotGet(Roots, slot)), "alloc_root_from_local", slot)

\* Clone for Root: RootHandles::clone_root
CloneRoot(handle) ==
    /\ GcStep
    /\ Cardinality(live) < MaxRoots
    /\ handle \in live
    /\ LET h == RootHandles_clone_root(ptrs, free, handle)
       IN  /\ ptrs' = h.ptrs
           /\ free' = h.free
           /\ live' = IF h.ok THEN live \cup {h.index} ELSE live
           /\ gstatus' = IF h.ok THEN gstatus ELSE "panic"
           /\ lastCall' = Call("clone_root", << handle >>,
                               IF h.ok THEN << h.index >> ELSE NoArg,
                               IF h.ok THEN NoPanic ELSE panics.ASSERT, NoAlloc)
    /\ HeapUnchanged
    /\ UNCHANGED << scopes, stack, released >>

\* Drop for Root: RootHandles::remove
DropRoot(handle) ==
    /\ GcStep
    /\ handle \in live
    /\ LET h == RootHandles_remove(ptrs, free, handle)
       IN  /\ ptrs' = h.ptrs
           /\ free' = h.free
           /\ lastCall' = Call("drop_root", << handle >>, << h.ptr >>,
                               NoPanic, NoAlloc)
    /\ live' = live \ {handle}
    /\ released' = released \cup {handle}
    /\ HeapUnchanged
    /\ UNCHANGED << scopes, stack, gstatus >>

\* Deref for Root: RootHandles::get_target, through a live Root or (stale)
\* through a Root whose slot was released
GetTarget(handle, stale) ==
    \* RootHandles::get_target: the address read, or the panic
    LET RootHandles_get_target(ps, h) ==
            IF Len(ps) <= h
            THEN [ptr |-> Null, panic |-> panics.ROOT]
            ELSE [ptr |-> ps[h + 1], panic |-> NoPanic]
    IN
    /\ GcStep
    /\ IF stale THEN handle \in released ELSE handle \in live
    /\ LET t == RootHandles_get_target(ptrs, handle)
       IN  /\ gstatus' = IF t.panic # NoPanic THEN "panic" ELSE gstatus
           /\ lastCall' = Call("get_target", << handle, stale >>,
                               IF t.panic = NoPanic THEN << t.ptr >> ELSE NoArg,
                               t.panic, NoAlloc)
    /\ HeapUnchanged
    /\ UNCHANGED << ptrs, free, live, released, scopes, stack >>

\* the program stores a reference (or null) in the pointer word of a pair
StoreField(dst, src) ==
    /\ GcStep
    /\ SlotGet(Roots, dst) # Null
    /\ objs[SlotGet(Roots, dst)].ty = TY_PAIR
    /\ objs' = [objs EXCEPT ![SlotGet(Roots, dst)].words[1] =
                   IF src = NullSlot THEN Null ELSE SlotGet(Roots, src)]
    /\ lastGc' = NoGc
    /\ lastCall' = Call("store", dst, src, NoPanic, NoAlloc)
    /\ UNCHANGED << ptrs, free, live, released, scopes, stack, active, top,
                    gstatus, finalizedLog >>

\* Hash::grow_entries on the heap: the table of a store is the array a Root
\* slot refers to (the slot stands for the field self.entries of the live
\* store).  The address of the old table is captured, the new table of
\* twice the length is allocated, the field is set to it, and the entries
\* are then read through the captured address and added to the new table
\* (their placement is that of grow_entries on the store machine; here
\* element i goes to element i).  When the allocation collected, the
\* captured address is an address of from-space: what is read through it
\* is the old payload, intact, or cleared memory.
GrowEntries(handle, intact) ==
    /\ GcStep
    /\ ptrs[handle + 1] # Null
    /\ objs[ptrs[handle + 1]].array
    /\ 2 * ArrayLen(objs[ptrs[handle + 1]]) <= MaxArrayLen
    /\ LET entries == ptrs[handle + 1]
           old == objs[entries]
           \* what was read through the captured address
           read(a) == IF entries \in DOMAIN a.objs THEN a.objs[entries].words
                      ELSE IF intact THEN old.words
                      ELSE [i \in 1..Len(old.words) |-> 0]
           \* the rest of the call, a being what alloc_array returned
           Grown(a) ==
               /\ intact \/ a.collections > 0
               /\ gstatus' = IF a.panic # NoPanic THEN "panic" ELSE gstatus
               /\ objs' = IF a.panic # NoPanic THEN a.objs
                          ELSE [a.objs EXCEPT ![a.addr].words =
                                   read(a) \o SubSeq(@, Len(old.words) + 1, Len(@))]
               /\ active' = a.active
               /\ top' = a.top
               /\ stack' = a.roots.stack
               /\ scopes' = a.roots.scopes
               /\ ptrs' = IF a.panic # NoPanic THEN a.roots.ptrs
                          ELSE [a.roots.ptrs EXCEPT ![handle + 1] = a.addr]
               /\ lastGc' = a.log
               /\ finalizedLog' = finalizedLog \o FinalizedIds(a.log.finalized)
               /\ lastCall' = Call("grow_entries", << handle, old.words >>,
                                   IF a.panic = NoPanic
                                   THEN << entries, a.roots.ptrs[handle + 1],
                                           a.addr >>
                                   ELSE NoArg,
                                   a.panic, AllocInfo(a))
       IN  Grown(alloc_array(old.ty, 2 * ArrayLen(old)))
    /\ UNCHANGED << free, live, released >>

\* the interpreter pushes a reference on its stack
PushStack(slot) ==
    /\ GcStep
    /\ Len(stack) < MaxStack
    /\ SlotGet(Roots, slot) # Null
    /\ stack' = Append(stack, SlotGet(Roots, slot))
    /\ lastCall' = Call("push", slot, NoArg, NoPanic, NoAlloc)
    /\ HeapUnchanged
    /\ UNCHANGED << ptrs, free, live, released, scopes, gstatus >>

\* the interpreter pops its stack
PopStack ==
    /\ GcStep
    /\ stack # << >>
    /\ stack' = SubSeq(stack, 1, Len(stack) - 1)
    /\ lastCall' = Call("pop", NoArg, NoArg, NoPanic, NoAlloc)
    /\ HeapUnchanged
    /\ UNCHANGED << ptrs, free, live, released, scopes, gstatus >>

\* the collection proper: heap.borrow_mut().gc(walkers, walker)
GcCollect ==
    /\ LET c == Collect(Roots, free, objs, active)
       IN  /\ ptrs' = c.roots.ptrs
           /\ scopes' = c.roots.scopes
           /\ stack' = c.roots.stack
           /\ objs' = c.to
           /\ active' = c.space
           /\ top' = c.top
           /\ lastGc' = GcLog(Roots, free, objs, c)
           /\ finalizedLog' = finalizedLog \o FinalizedIds(c.finalized)
    /\ lastCall' = Call("gc", NoArg, NoArg, NoPanic, NoAlloc)
    /\ UNCHANGED << free, live, released, gstatus >>

\* GcHeap::gc
Gc ==
    /\ GcStep
    /\ GcCollect

RECURSIVE FillScope(_, _, _)
\* n further Locals for the object at ptr
FillScope(d, ptr, n) ==
    IF n = 0 THEN d ELSE FillScope(LocalScopeData_add(d, ptr), ptr, n - 1)

GcInit ==
    \* the heap right after GcHeap::new; the heap of a program that opened
    \* a scope, allocated a leaf (at address 2), took Locals on it until the
    \* first vector was full, allocated a pair (at address 4) under a Root,
    \* stored the leaf in it, cloned the Root and dropped the first one; and
    \* the heaps of two programs that opened a scope, allocated an array of
    \* two elements (at address 2) under a Local and an object under a Root,
    \* and dropped the scope: an array of leaves and a pair (at address 6), an
    \* array of pairs and a leaf (at address 8); and the heap of a program
    \* that allocated the table of a store under a Root (an array of one
    \* element at address 2, the element written), then a leaf under a
    \* second Root, and dropped the second Root
    LET GcSetups ==
            { [scopes |-> << >>, objs |-> << >>, top |-> 0,
               ptrs |-> << >>, free |-> << >>, live |-> {}, released |-> {}],
              [scopes |-> << FillScope(LocalScopeData_new, 2,
                                       INITIAL_LOCAL_SCOPE_CAPACITY) >>,
               objs |-> (2 :> NewObject(TY_LEAF, 0, -2))
                        @@ (4 :> [NewObject(TY_PAIR, 0, -1) EXCEPT !.words[1] = 2]),
               top |-> 5,
               ptrs |-> << Null, 4 >>, free |-> << 0 >>, live |-> {1},
               released |-> {0}],
              [scopes |-> << >>,
               objs |-> (2 :> NewArray(TY_LEAF, 2, -2))
                        @@ (6 :> NewObject(TY_PAIR, 0, -1)),
               top |-> 7,
               ptrs |-> << 6 >>, free |-> << >>, live |-> {0}, released |-> {}],
              [scopes |-> << >>,
               objs |-> (2 :> NewArray(TY_PAIR, 2, -2))
                        @@ (8 :> NewObject(TY_LEAF, 0, -1)),
               top |-> 8,
               ptrs |-> << 8 >>, free |-> << >>, live |-> {0}, released |-> {}],
              [scopes |-> << >>,
               objs |-> (2 :> [NewArray(TY_LEAF, 1, -2) EXCEPT !.words = << 2 >>])
                        @@ (5 :> NewObject(TY_LEAF, 0, -1)),
               top |-> 5,
               ptrs |-> << 2, Null >>, free |-> << 1 >>, live |-> {0},
               released |-> {1}] }
    IN
    /\ \E g \in GcSetups :
          /\ scopes = g.scopes
          /\ objs = g.objs
          /\ top = g.top
          /\ ptrs = g.ptrs
          /\ free = g.free
          /\ live = g.live
          /\ released = g.released
    /\ stack = << >>
    /\ active = 0
    /\ gstatus = "running"
    /\ lastGc = NoGc
    /\ gops = 0
    /\ finalizedLog = << >>
    /\ lastCall = NoCall
    \* an empty store, never used by this machine
    /\ hash = HashNew(0)
    /\ hstatus = "running"
    /\ lastOp = NoOp
    /\ overflow_checks = FALSE
    /\ ops = 0
    \* no call into the runtime in progress
    /\ frames = << >>
    /\ eresult = NoResult
    /\ borrows = NoBorrows
    /\ chain = << >>
    /\ rtcall = [op |-> "none", count |-> 0]

GcNext ==
    \/ NewLocalScope
    \/ \E index \in 0..(MaxScopes - 1) : DropScope(index)
    \/ \E ty \in Types, data \in DataWords : AllocLocal(ty, data)
    \/ \E ty \in Types, size \in ArrayLens : AllocArrayLocal(ty, size)
    \/ \E ty \in Types, data \in DataWords : AllocRoot(ty, data)
    \/ \E ty \in Types, size \in ArrayLens : AllocArrayRoot(ty, size)
    \/ \E slot \in HandleSlots : LocalFrom(slot)
    \/ \E slot \in HandleSlots : RootFrom(slot)
    \/ \E handle \in live : CloneRoot(handle)
    \/ \E handle \in live : DropRoot(handle)
    \/ \E handle \in live \cup released, stale \in BOOLEAN : GetTarget(handle, stale)
    \/ \E dst \in HandleSlots, src \in HandleSlots \cup {NullSlot} : StoreField(dst, src)
    \/ \E handle \in live, intact \in BOOLEAN : GrowEntries(handle, intact)
    \/ \E slot \in HandleSlots : PushStack(slot)
    \/ PopStack
    \/ Gc

(***************************************************************************)
(* rt/mod.rs and lib.rs: the calls that open a local scope for their own   *)
(* duration.  A frame is a call in progress: the function, the statement   *)
(* it is at, the depth of the scope stack when it was called and the index *)
(* of the LocalScope its _scope variable holds (-1 before the let).        *)
(***************************************************************************)
\* calls in progress at once
MaxDepth == 3
\* Roots held on results at once
MaxResults == 1

\* the Locals the statements at pc create: global and global_scope in
\* run_strict and eval, the class in new_error, its three arguments
LocalsAt(pc) ==
    IF pc = "as_local" THEN 2
    ELSE IF pc = "get_class" THEN 1
    ELSE IF pc = "args" THEN 3
    ELSE 0

RECURSIVE as_local(_, _, _)
\* n Locals for the object at ptr in the top scope
as_local(sc, ptr, n) ==
    IF n = 0 THEN sc
    ELSE as_local(alloc_local_from_any_ptr(sc, ptr).scopes, ptr, n - 1)

\* a return that forgets the LocalScope when the result is Err
FrameExit_leak_on_err(sc, frame, result) ==
    IF frame.scope = -1 \/ result = "Err"
    THEN [scopes |-> sc, panic |-> NoPanic]
    ELSE drop_current_scope(sc, frame.scope)

\* the return of a function, by its last expression or by try!: the
\* variable _scope is dropped when it was initialised
FrameExit(sc, frame, result) ==
    IF frame.scope = -1
    THEN [scopes |-> sc, panic |-> NoPanic]
    ELSE drop_current_scope(sc, frame.scope)

\* one step of a call into the runtime; the heap and the hash store stand
\* still
EnvStep ==
    /\ gstatus = "running"
    /\ lastGc' = NoGc
    /\ UNCHANGED << hvars, stack, objs, active, top, gops, released,
                    finalizedLog, borrows, rvars >>

\* the host calls run_strict, eval or new_error, or the program a call is
\* running calls eval or raises an error
EnvCall(fn) ==
    /\ EnvStep
    /\ Len(frames) < MaxDepth
    /\ frames # << >> =>
          /\ frames[Len(frames)].pc = "body"
          /\ fn # "run_strict"
    /\ frames' = Append(frames,
                        [fn |-> fn,
                         pc |-> IF fn = "run_strict" THEN "parse_file"
                                ELSE "new_local_scope",
                         depth0 |-> Len(scopes), scope |-> -1])
    /\ lastCall' = Call("call", << fn >>, NoArg, NoPanic, NoAlloc)
    /\ UNCHANGED << scopes, ptrs, free, live, gstatus, eresult >>

\* let _scope = new_local_scope()
EnvOpenScope ==
    /\ EnvStep
    /\ frames # << >>
    /\ frames[Len(frames)].pc = "new_local_scope"
    /\ LET n == new_local_scope(scopes)
       IN  /\ scopes' = n.scopes
           /\ frames' = [frames EXCEPT
                           ![Len(frames)].scope = n.index,
                           ![Len(frames)].pc =
                               IF frames[Len(frames)].fn = "new_error"
                               THEN "get_class" ELSE "as_local"]
           /\ lastCall' = Call("new_local_scope", NoArg, << n.index >>,
                               NoPanic, NoAlloc)
    /\ UNCHANGED << ptrs, free, live, gstatus, eresult >>

\* a statement that only creates Locals: as_value and as_local on the
\* global object
EnvLocals ==
    /\ EnvStep
    /\ frames # << >>
    /\ frames[Len(frames)].pc \in {"as_local", "args"}
    /\ scopes' = as_local(scopes, ptrs[1], LocalsAt(frames[Len(frames)].pc))
    /\ frames' = [frames EXCEPT ![Len(frames)].pc = "body"]
    /\ lastCall' = Call("as_local", NoArg, NoArg, NoPanic, NoAlloc)
    /\ UNCHANGED << ptrs, free, live, gstatus, eresult >>

\* a try!: parse_file and print_ir before the scope is opened, the lookup
\* of the error class after it
EnvTry(ok) ==
    /\ EnvStep
    /\ frames # << >>
    /\ frames[Len(frames)].pc \in {"parse_file", "print_ir", "get_class"}
    /\ IF ok
       THEN /\ scopes' = as_local(scopes, ptrs[1], LocalsAt(frames[Len(frames)].pc))
            /\ frames' = [frames EXCEPT
                            ![Len(frames)].pc =
                                IF frames[Len(frames)].pc = "parse_file"
                                THEN "print_ir"
                                ELSE IF frames[Len(frames)].pc = "print_ir"
                                THEN "new_local_scope"
                                ELSE "args"]
            /\ lastCall' = Call("try", NoArg, NoArg, NoPanic, NoAlloc)
            /\ UNCHANGED << gstatus, eresult >>
       ELSE LET sc == as_local(scopes, ptrs[1], LocalsAt(frames[Len(frames)].pc))
                f == frames[Len(frames)]
                x == FrameExit(sc, f, "Err")
            IN  /\ scopes' = x.scopes
                /\ gstatus' = IF x.panic # NoPanic THEN "panic" ELSE gstatus
                /\ frames' = SubSeq(frames, 1, Len(frames) - 1)
                /\ eresult' = [fn |-> f.fn, result |-> "Err",
                               depth0 |-> f.depth0, depth |-> Len(x.scopes),
                               opened |-> f.scope # -1]
                /\ lastCall' = Call(f.fn, << "Err" >>, NoArg, x.panic, NoAlloc)
    /\ UNCHANGED << ptrs, free, live >>

\* run_program, eval_scoped or construct comes back: Err, or Ok with the
\* result under a new Root
EnvBody(ok) ==
    \* the top frame returns result
    LET EnvReturn(result) ==
            LET f == frames[Len(frames)]
                x == FrameExit(scopes, f, result)
            IN  /\ scopes' = x.scopes
                /\ gstatus' = IF x.panic # NoPanic THEN "panic" ELSE gstatus
                /\ frames' = SubSeq(frames, 1, Len(frames) - 1)
                /\ eresult' = [fn |-> f.fn, result |-> result, depth0 |-> f.depth0,
                               depth |-> Len(x.scopes), opened |-> f.scope # -1]
                /\ lastCall' = Call(f.fn, << result >>, NoArg, x.panic, NoAlloc)
    IN
    /\ EnvStep
    /\ frames # << >>
    /\ frames[Len(frames)].pc = "body"
    /\ ok => Cardinality(live) < 2 + MaxResults
    /\ IF ok
       THEN LET h == RootHandles_add(ptrs, free, ptrs[1])
            IN  /\ ptrs' = h.ptrs
                /\ free' = h.free
                /\ live' = live \cup {h.index}
       ELSE IF frames[Len(frames)].fn # "new_error"
       THEN \* run_program had its result Root when function.call failed
            LET h == RootHandles_add(ptrs, free, ptrs[1])
                d == RootHandles_remove(h.ptrs, h.free, h.index)
            IN  /\ ptrs' = d.ptrs
                /\ free' = d.free
                /\ live' = live
       ELSE UNCHANGED << ptrs, free, live >>
    /\ EnvReturn(IF ok THEN "Ok" ELSE "Err")

\* the holder of a result drops its Root
EnvDropRoot(handle) ==
    /\ EnvStep
    /\ handle \in live
    /\ handle >= 2
    /\ LET h == RootHandles_remove(ptrs, free, handle)
       IN  /\ ptrs' = h.ptrs
           /\ free' = h.free
           /\ lastCall' = Call("drop_root", << handle >>, << h.ptr >>,
                               NoPanic, NoAlloc)
    /\ live' = live \ {handle}
    /\ UNCHANGED << scopes, gstatus, frames, eresult >>

\* the runtime after JsEnv::new: the global object (at address 2) and the
\* global scope (at address 5) under Roots, no scope open
EnvInit ==
    /\ frames = << >>
    /\ eresult = NoResult
    /\ borrows = NoBorrows
    /\ chain = << >>
    /\ rtcall = [op |-> "none", count |-> 0]
    /\ scopes = << >>
    /\ objs = (2 :> NewObject(TY_PAIR, 0, -2)) @@ (5 :> NewObject(TY_PAIR, 0, -1))
    /\ top = 6
    /\ ptrs = << 2, 5 >>
    /\ free = << >>
    /\ live = {0, 1}
    /\ released = {}
    /\ stack = << >>
    /\ active = 0
    /\ gstatus = "running"
    /\ lastGc = NoGc
    /\ gops = 0
    /\ finalizedLog = << >>
    /\ lastCall = NoCall
    /\ hash = HashNew(0)
    /\ hstatus = "running"
    /\ lastOp = NoOp
    /\ overflow_checks = FALSE
    /\ ops = 0

EnvNext ==
    \/ \E fn \in {"run_strict", "eval", "new_error"} : EnvCall(fn)
    \/ EnvOpenScope
    \/ EnvLocals
    \/ \E ok \in BOOLEAN : EnvTry(ok)
    \/ \E ok \in BOOLEAN : EnvBody(ok)
    \/ \E handle \in 2..(2 + MaxResults) : EnvDropRoot(handle)

(***************************************************************************)
(* gc/mod.rs: the RefCells.  A collection holds its borrows while the      *)
(* strategy runs the walkers and the finalizers; on one thread every call  *)
(* that arrives while they are held comes from such a callback.            *)
(***************************************************************************)
\* RefCell::borrow_mut and RefCell::borrow on a cell in state st
BorrowPanics(st, kind) ==
    IF kind = "mut" THEN st # "free" ELSE st = "mut"

\* a collection that takes the scopes out of their RefCell without a guard
GcBorrows_scopes_free ==
    [handles |-> "mut", scopes |-> "free", heap |-> "mut"]

\* the borrows gc() holds while the strategy collects: handles.data
\* borrow_mut, scopes borrow, heap borrow_mut
GcBorrows ==
    [handles |-> "mut", scopes |-> "shared", heap |-> "mut"]

\* the first borrow of each call
FirstBorrow(op) ==
    CASE op \in {"alloc_root_from_local", "drop_root"} ->
             [cell |-> "handles", kind |-> "mut"]
      [] op = "clone_root" -> [cell |-> "handles", kind |-> "shared"]
      [] op \in {"new_local_scope", "drop_current_scope",
                 "alloc_local_from_ptr"} ->
             [cell |-> "scopes", kind |-> "mut"]
      [] op \in {"alloc_local", "alloc_root"} ->
             [cell |-> "heap", kind |-> "mut"]

\* the panic of a RefCell: nothing was touched
BorrowPanic(op) ==
    /\ gstatus = "running"
    /\ gstatus' = "panic"
    /\ lastCall' = Call(op, NoArg, NoArg, panics.BORROW, NoAlloc)
    /\ lastGc' = NoGc
    /\ UNCHANGED << hvars, frames, eresult, borrows, rvars, ptrs, free, live, scopes,
                    stack,
                    objs, active, top, gops, released, finalizedLog >>

\* a call that starts with the borrow FirstBorrow(op), then does A
Borrowing(op, A) ==
    IF BorrowPanics(borrows[FirstBorrow(op).cell], FirstBorrow(op).kind)
    THEN BorrowPanic(op)
    ELSE A

\* gc() up to the call of the strategy: the three borrows
GcEnter ==
    /\ gstatus = "running"
    /\ gops < MaxGcOps
    /\ IF \/ BorrowPanics(borrows.handles, GcBorrows.handles)
          \/ BorrowPanics(borrows.scopes, GcBorrows.scopes)
          \/ BorrowPanics(borrows.heap, GcBorrows.heap)
       THEN BorrowPanic("gc")
       ELSE /\ borrows' = GcBorrows
            /\ lastCall' = Call("gc_enter", NoArg, NoArg, NoPanic, NoAlloc)
            /\ lastGc' = NoGc
            /\ UNCHANGED << hvars, frames, eresult, rvars, ptrs, free, live, scopes,
                            stack,
                            objs, active, top, gops, released, finalizedLog,
                            gstatus >>

\* the strategy returns and gc() releases its borrows
GcLeave ==
    /\ gstatus = "running"
    /\ borrows = GcBorrows
    /\ gops < MaxGcOps
    /\ gops' = gops + 1
    /\ GcCollect
    /\ borrows' = NoBorrows
    /\ UNCHANGED << hvars, frames, eresult, rvars >>

BorrowNext ==
    \/ Borrowing("new_local_scope", NewLocalScope)
    \/ \E index \in 0..(MaxScopes - 1) :
          Borrowing("drop_current_scope", DropScope(index))
    \/ \E ty \in Types, data \in DataWords :
          Borrowing("alloc_local", AllocLocal(ty, data))
    \/ \E ty \in Types, data \in DataWords :
          Borrowing("alloc_root", AllocRoot(ty, data))
    \/ \E slot \in HandleSlots :
          Borrowing("alloc_local_from_ptr", LocalFrom(slot))
    \/ \E slot \in HandleSlots :
          Borrowing("alloc_root_from_local", RootFrom(slot))
    \/ \E handle \in live : Borrowing("clone_root", CloneRoot(handle))
    \/ \E handle \in live : Borrowing("drop_root", DropRoot(handle))
    \/ GcEnter
    \/ GcLeave

(***************************************************************************)
(* rt/mod.rs: JsItem.  An object is [class, extensible, props]; props maps *)
(* a property name to None or Some(descriptor); a function value is a     *)
(* number other than Undefined.                                            *)
(***************************************************************************)
\* calls on one chain
MaxRtOps == 1

\* the messages of errors.rs
errors ==
    [TYPE_NOT_A_FUNCTION |-> "Value is not a function",
     TYPE_INVALID |-> "Unexpected type",
     TYPE_CANNOT_PUT |-> "Cannot set property",
     TYPE_CANNOT_WRITE |-> "Property is not writable",
     TYPE_PROPERTY_ONLY_HAS_GETTER |->
         "Cannot set property because it only has a getter"]

\* Name::is_index: the name is an array index
is_index(property) == property \in {"0", "1", "2"}

is_data(d) == d.writable # None \/ d.value # None

RECURSIVE get_property(_, _, _)
\* [[GetProperty]] on chain[k]: the descriptor and the object that holds it
get_property(ch, k, property) ==
    IF ch[k].props[property] # None
    THEN [desc |-> ch[k].props[property], holder |-> k]
    ELSE IF k < Len(ch)
    THEN get_property(ch, k + 1, property)
    ELSE [desc |-> None, holder |-> 0]

\* a [[CanPut]] that looks at the own property only
can_put_own_only(ch, property) ==
    LET own == ch[1].props[property]
    IN  IF own # None
        THEN IF is_accessor(own[1])
             THEN IF own[1].set # None THEN own[1].set[1] # Undefined ELSE FALSE
             ELSE unwrap_or(own[1].writable, FALSE)
        ELSE ch[1].extensible

\* [[CanPut]] on chain[1]
can_put(ch, property) ==
    LET own == ch[1].props[property]
        inherited == IF Len(ch) > 1 THEN get_property(ch, 2, property).desc
                     ELSE None
    IN  IF own # None
        THEN IF is_accessor(own[1])
             THEN IF own[1].set # None THEN own[1].set[1] # Undefined ELSE FALSE
             ELSE unwrap_or(own[1].writable, FALSE)
        ELSE IF inherited # None
        THEN IF is_accessor(inherited[1])
             THEN IF inherited[1].set # None
                  THEN inherited[1].set[1] # Undefined
                  ELSE FALSE
             ELSE IF ~ch[1].extensible THEN FALSE
                  ELSE unwrap_or(inherited[1].writable, FALSE)
        ELSE ch[1].extensible

\* [[DefineOwnProperty]] of an object, ECMA-262 8.12.9: the object after the
\* call and "true", "false" or "Err"
define_own_property(o, property, desc, throw) ==
    LET fields == {"value", "get", "set", "writable", "enumerable",
                   "configurable"}
        current == o.props[property]
        reject == [o |-> o, ret |-> IF throw THEN "Err" ELSE "false",
                   error |-> IF throw THEN errors.TYPE_CANNOT_PUT ELSE ""]
        keep == [o |-> o, ret |-> "true", error |-> ""]
        accept(d) == [o |-> [o EXCEPT !.props[property] = Some(d)],
                      ret |-> "true", error |-> ""]
        merged(c) == [f \in fields |-> IF desc[f] # None THEN desc[f] ELSE c[f]]
        created ==
            IF is_accessor(desc)
            THEN [value |-> None, writable |-> None,
                  get |-> Some(unwrap_or(desc.get, Undefined)),
                  set |-> Some(unwrap_or(desc.set, Undefined)),
                  enumerable |-> Some(unwrap_or(desc.enumerable, FALSE)),
                  configurable |-> Some(unwrap_or(desc.configurable, FALSE))]
            ELSE [value |-> Some(unwrap_or(desc.value, Undefined)),
                  writable |-> Some(unwrap_or(desc.writable, FALSE)),
                  get |-> None, set |-> None,
                  enumerable |-> Some(unwrap_or(desc.enumerable, FALSE)),
                  configurable |-> Some(unwrap_or(desc.configurable, FALSE))]
        converted(c) ==
            IF is_data(c)
            THEN [c EXCEPT !.value = None, !.writable = None,
                           !.get = Some(Undefined), !.set = Some(Undefined)]
            ELSE [c EXCEPT !.get = None, !.set = None,
                           !.value = Some(Undefined), !.writable = Some(FALSE)]
        frozen(c) == c.configurable = Some(FALSE)
        differs(c, f) == desc[f] # None /\ desc[f] # c[f]
    IN  IF current = None
        THEN IF o.extensible THEN accept(created) ELSE reject
        ELSE LET c == current[1]
             IN  IF \A f \in fields : ~differs(c, f) THEN keep
                 ELSE IF frozen(c) /\ (desc.configurable = Some(TRUE)
                                        \/ differs(c, "enumerable"))
                 THEN reject
                 ELSE IF ~is_accessor(desc) /\ ~is_data(desc)
                 THEN accept(merged(c))
                 ELSE IF is_data(c) # is_data(desc)
                 THEN IF frozen(c) THEN reject
                      ELSE accept(merged(converted(c)))
                 ELSE IF is_data(c)
                 THEN IF /\ frozen(c)
                         /\ c.writable = Some(FALSE)
                         /\ (desc.writable = Some(TRUE) \/ differs(c, "value"))
                      THEN reject
                      ELSE accept(merged(c))
                 ELSE IF frozen(c) /\ (differs(c, "get") \/ differs(c, "set"))
                 THEN reject
                 ELSE accept(merged(c))

\* [[CanPut]] asked of the object chain[1]
CanPut(property) ==
    /\ chain # << >>
    /\ rtcall.count < MaxRtOps
    /\ property \in DOMAIN chain[1].props
    /\ rtcall' = [op |-> "can_put", count |-> rtcall.count + 1,
                  property |-> property, before |-> chain,
                  ret |-> can_put(chain, property)]
    /\ UNCHANGED << chain, hvars, gvars, frames, eresult, borrows >>

\* a put that consults can_put for arrays too
put_no_bypass(ch, property, value, throw, callee_ok) ==
    LET self == ch[1]
        Ok(c, calls) == [chain |-> c, ret |-> "Ok", error |-> "", calls |-> calls]
        Err(e, calls) == [chain |-> ch, ret |-> "Err", error |-> e, calls |-> calls]
        define(desc) ==
            LET r == define_own_property(self, property, desc, throw)
            IN  IF r.ret = "Err" THEN Err(r.error, << >>)
                ELSE Ok([ch EXCEPT ![1] = r.o], << >>)
        own_desc == self.props[property]
        found == get_property(ch, 1, property)
    IN  IF ~can_put(ch, property)
        THEN IF throw THEN Err(errors.TYPE_CANNOT_PUT, << >>) ELSE Ok(ch, << >>)
        ELSE IF own_desc # None /\ is_data(own_desc[1])
        THEN define([default EXCEPT !.value = Some(value)])
        ELSE IF found.desc # None /\ is_accessor(found.desc[1])
        THEN LET set == unwrap_or(found.desc[1].set, Undefined)
                 call == [callee |-> set, this |-> 1, args |-> << value >>]
             IN  IF set = Undefined
                 \* undefined is called, and the call raises
                 THEN Err(errors.TYPE_NOT_A_FUNCTION, << call >>)
                 ELSE IF callee_ok THEN Ok(ch, << call >>)
                 ELSE Err("raised by the callee", << call >>)
        ELSE define(new_value(value, TRUE, TRUE, TRUE))

\* a put that calls the setter on the object that holds the accessor
put_this_holder(ch, property, value, throw, callee_ok) ==
    LET self == ch[1]
        Ok(c, calls) == [chain |-> c, ret |-> "Ok", error |-> "", calls |-> calls]
        Err(e, calls) == [chain |-> ch, ret |-> "Err", error |-> e, calls |-> calls]
        define(desc) ==
            LET r == define_own_property(self, property, desc, throw)
            IN  IF r.ret = "Err" THEN Err(r.error, << >>)
                ELSE Ok([ch EXCEPT ![1] = r.o], << >>)
        own_desc == self.props[property]
        found == get_property(ch, 1, property)
    IN  IF /\ self.class # "Array" \/ ~is_index(property)
           /\ ~can_put(ch, property)
        THEN IF throw THEN Err(errors.TYPE_CANNOT_PUT, << >>) ELSE Ok(ch, << >>)
        ELSE IF own_desc # None /\ is_data(own_desc[1])
        THEN define([default EXCEPT !.value = Some(value)])
        ELSE IF found.desc # None /\ is_accessor(found.desc[1])
        THEN LET set == unwrap_or(found.desc[1].set, Undefined)
                 call == [callee |-> set, this |-> found.holder, args |-> << value >>]
             IN  IF set = Undefined
                 \* undefined is called, and the call raises
                 THEN Err(errors.TYPE_NOT_A_FUNCTION, << call >>)
                 ELSE IF callee_ok THEN Ok(ch, << call >>)
                 ELSE Err("raised by the callee", << call >>)
        ELSE define(new_value(value, TRUE, TRUE, TRUE))

\* [[Put]] on chain[1].  callee_ok: the setter, when one is called, returns
\* without raising.  this is the place in the chain of the object the
\* setter is called on.
put(ch, property, value, throw, callee_ok) ==
    LET self == ch[1]
        Ok(c, calls) == [chain |-> c, ret |-> "Ok", error |-> "", calls |-> calls]
        Err(e, calls) == [chain |-> ch, ret |-> "Err", error |-> e, calls |-> calls]
        define(desc) ==
            LET r == define_own_property(self, property, desc, throw)
            IN  IF r.ret = "Err" THEN Err(r.error, << >>)
                ELSE Ok([ch EXCEPT ![1] = r.o], << >>)
        own_desc == self.props[property]
        found == get_property(ch, 1, property)
    IN  IF /\ self.class # "Array" \/ ~is_index(property)
           /\ ~can_put(ch, property)
        THEN IF throw THEN Err(errors.TYPE_CANNOT_PUT, << >>) ELSE Ok(ch, << >>)
        ELSE IF own_desc # None /\ is_data(own_desc[1])
        THEN define([default EXCEPT !.value = Some(value)])
        ELSE IF found.desc # None /\ is_accessor(found.desc[1])
        THEN LET set == unwrap_or(found.desc[1].set, Undefined)
                 call == [callee |-> set, this |-> 1, args |-> << value >>]
             IN  IF set = Undefined
                 \* undefined is called, and the call raises
                 THEN Err(errors.TYPE_NOT_A_FUNCTION, << call >>)
                 ELSE IF callee_ok THEN Ok(ch, << call >>)
                 ELSE Err("raised by the callee", << call >>)
        ELSE define(new_value(value, TRUE, TRUE, TRUE))

\* one call on chain[1]
RtStep ==
    /\ chain # << >>
    /\ rtcall.count < MaxRtOps
    /\ UNCHANGED << hvars, gvars, frames, eresult, borrows >>

\* put on chain[1]
Put(property, value, throw, callee_ok) ==
    /\ RtStep
    /\ property \in DOMAIN chain[1].props
    /\ LET r == put(chain, property, value, throw, callee_ok)
       IN  /\ chain' = r.chain
           /\ rtcall' = [op |-> "put", count |-> rtcall.count + 1,
                         property |-> property, value |-> value,
                         throw |-> throw, before |-> chain,
                         ret |-> r.ret, error |-> r.error, calls |-> r.calls]

\* a default_value that takes no hint for Number whatever the object is
default_value_number(ch, hint, is_date) ==
    LET Err(e, calls) == [ret |-> "Err", value |-> Undefined, error |-> e,
                          calls |-> calls]
        Ok(v, calls) == [ret |-> "Ok", value |-> v, error |-> "",
                         calls |-> calls]
        is_callable(v) == v \in 10..13
        call(callee, calls) ==
            IF callee = 12 THEN Err("raised by the callee", Append(calls, callee))
            ELSE Ok(IF callee = 11 THEN 200 ELSE 90 + callee,
                    Append(calls, callee))
        is_primitive(v) == v < 200
        \* [[Get]]
        get(property, calls) ==
            LET desc == get_property(ch, 1, property).desc
            IN  IF desc = None THEN Ok(Undefined, calls)
                ELSE IF is_data(desc[1])
                THEN Ok(unwrap_or(desc[1].value, Undefined), calls)
                ELSE IF unwrap_or(desc[1].get, Undefined) = Undefined
                THEN Ok(Undefined, calls)
                ELSE call(desc[1].get[1], calls)
        \* try_call: Some(primitive), None, or the error of the call
        try_call(method, calls) ==
            IF is_callable(method)
            THEN LET val == call(method, calls)
                 IN  IF val.ret = "Err" THEN val
                     ELSE IF is_primitive(val.value)
                     THEN Ok(Some(val.value), val.calls)
                     ELSE Ok(None, val.calls)
            ELSE Ok(None, calls)
        \* get the method and try it, then go on with rest
        attempt(property, calls, rest(_)) ==
            LET method == get(property, calls)
            IN  IF method.ret = "Err" THEN method
                ELSE LET r == try_call(method.value, method.calls)
                     IN  IF r.ret = "Err" THEN r
                         ELSE IF r.value # None THEN Ok(r.value[1], r.calls)
                         ELSE rest(r.calls)
        fail(calls) == Err(errors.TYPE_INVALID, calls)
        second_value_of(calls) == attempt("valueOf", calls, fail)
        second_to_string(calls) == attempt("toString", calls, fail)
    IN  IF hint = "None" /\ is_date = "Err"
        THEN Err("raised by has_instance", << >>)
        ELSE IF hint = "String"
        THEN attempt("toString", << >>, second_value_of)
        ELSE attempt("valueOf", << >>, second_to_string)

\* [[DefaultValue]] on chain[1].  is_date: what has_instance of the global
\* Date says of the object, "true", "false" or "Err".  The functions a
\* property can hold: 10 and 13 return the primitives 100 and 103, 11
\* returns an object, 12 raises; every other value is not callable.
default_value(ch, hint, is_date) ==
    LET Err(e, calls) == [ret |-> "Err", value |-> Undefined, error |-> e,
                          calls |-> calls]
        Ok(v, calls) == [ret |-> "Ok", value |-> v, error |-> "",
                         calls |-> calls]
        is_callable(v) == v \in 10..13
        call(callee, calls) ==
            IF callee = 12 THEN Err("raised by the callee", Append(calls, callee))
            ELSE Ok(IF callee = 11 THEN 200 ELSE 90 + callee,
                    Append(calls, callee))
        is_primitive(v) == v < 200
        \* [[Get]]
        get(property, calls) ==
            LET desc == get_property(ch, 1, property).desc
            IN  IF desc = None THEN Ok(Undefined, calls)
                ELSE IF is_data(desc[1])
                THEN Ok(unwrap_or(desc[1].value, Undefined), calls)
                ELSE IF unwrap_or(desc[1].get, Undefined) = Undefined
                THEN Ok(Undefined, calls)
                ELSE call(desc[1].get[1], calls)
        \* try_call: Some(primitive), None, or the error of the call
        try_call(method, calls) ==
            IF is_callable(method)
            THEN LET val == call(method, calls)
                 IN  IF val.ret = "Err" THEN val
                     ELSE IF is_primitive(val.value)
                     THEN Ok(Some(val.value), val.calls)
                     ELSE Ok(None, val.calls)
            ELSE Ok(None, calls)
        \* get the method and try it, then go on with rest
        attempt(property, calls, rest(_)) ==
            LET method == get(property, calls)
            IN  IF method.ret = "Err" THEN method
                ELSE LET r == try_call(method.value, method.calls)
                     IN  IF r.ret = "Err" THEN r
                         ELSE IF r.value # None THEN Ok(r.value[1], r.calls)
                         ELSE rest(r.calls)
        fail(calls) == Err(errors.TYPE_INVALID, calls)
        second_value_of(calls) == attempt("valueOf", calls, fail)
        second_to_string(calls) == attempt("toString", calls, fail)
    IN  IF hint = "None" /\ is_date = "Err"
        THEN Err("raised by has_instance", << >>)
        ELSE IF hint = "String" \/ (hint = "None" /\ is_date = "true")
        THEN attempt("toString", << >>, second_value_of)
        ELSE attempt("valueOf", << >>, second_to_string)

\* default_value on chain[1]
DefaultValue(hint, is_date) ==
    /\ RtStep
    /\ "valueOf" \in DOMAIN chain[1].props
    /\ LET r == default_value(chain, hint, is_date)
       IN  rtcall' = [op |-> "default_value", count |-> rtcall.count + 1,
                      hint |-> hint, is_date |-> is_date, before |-> chain,
                      ret |-> r.ret, value |-> r.value, error |-> r.error,
                      calls |-> r.calls]
    /\ UNCHANGED chain

\* nested calls of new_error the native stack holds
MaxErrDepth == 4

RECURSIVE new_error(_, _, _)
\* construct of the value class, with fuel frames left on the native stack.
\* The values a global can hold: 20 is a constructor that makes the error
\* object, 21 a constructor that raises a TypeError, 22 one that raises a
\* RangeError; any other value is not a constructor, which is a TypeError.
\* An error raised during construct is made by new_type or new_range, that
\* is by a nested new_error, before construct returns it.
construct(ch, class, name, fuel) ==
    IF class = 20 THEN [ret |-> "Ok", class |-> name, depth |-> 0]
    ELSE LET raised == new_error(ch,
                                 IF class = 22 THEN "RangeError"
                                 ELSE "TypeError",
                                 fuel)
         IN  [ret |-> IF raised.ret = "overflow" THEN "overflow" ELSE "Err",
              class |-> raised.class, depth |-> raised.depth]

\* JsError::new_error with the global object chain[1]: the class is looked
\* up by name and constructed; a failure of either is the result
new_error(ch, name, fuel) ==
    IF fuel = 0 THEN [ret |-> "overflow", class |-> name, depth |-> 0]
    ELSE LET desc == get_property(ch, 1, name).desc
             class == IF desc = None THEN Undefined
                      ELSE unwrap_or(desc[1].value, Undefined)
             obj == construct(ch, class, name, fuel - 1)
         IN  [obj EXCEPT !.depth = @ + 1]

\* JsError::new_runtime for the class name: new_type, new_range
NewRuntime(name) ==
    /\ RtStep
    /\ name \in DOMAIN chain[1].props
    /\ LET r == new_error(chain, name, MaxErrDepth)
       IN  rtcall' = [op |-> "new_runtime", count |-> rtcall.count + 1,
                      name |-> name, before |-> chain,
                      \* Ok(error) => Runtime(error), Err(error) => error
                      ret |-> IF r.ret = "overflow" THEN "overflow"
                              ELSE "returned",
                      class |-> r.class, depth |-> r.depth]
    /\ UNCHANGED chain

(***************************************************************************)
(* rt/env/array.rs: Array.prototype.sort.                                  *)
(***************************************************************************)
\* the comparison of x and y, None for a hole, by the closure Array_sort
\* hands to sort_by.  st holds the vector, the error the closure has
\* captured and the log of the comparisons made.  The comparators: 10
\* returns x - y, 12 raises when x is 2, 14 returns an object that does not
\* convert to a number; any other value is not callable.  The element 50 is
\* an object whose to_string raises.
Comparison(st, x, y, compare_fn) ==
    LET Equal(error, called) ==
            [st |-> [st EXCEPT !.error = error,
                               !.log = Append(@, [x |-> x, y |-> y,
                                                  called |-> called,
                                                  raised |-> error])],
             ord |-> "Equal"]
        Ord(lt, gt, called) ==
            [st |-> [st EXCEPT !.log = Append(@, [x |-> x, y |-> y,
                                                  called |-> called,
                                                  raised |-> None])],
             ord |-> IF lt THEN "Less" ELSE IF gt THEN "Greater" ELSE "Equal"]
        Const(ord) == [st |-> st, ord |-> ord]
    IN  IF x = None /\ y = None THEN Const("Equal")
        ELSE IF x = None THEN Const("Greater")
        ELSE IF y = None THEN Const("Less")
        ELSE IF x[1] = Undefined /\ y[1] = Undefined THEN Const("Equal")
        ELSE IF x[1] = Undefined THEN Const("Greater")
        ELSE IF y[1] = Undefined THEN Const("Less")
        ELSE IF compare_fn # Undefined
        THEN IF compare_fn \notin {10, 12, 14}
             THEN Equal(Some(errors.TYPE_NOT_A_FUNCTION), FALSE)
             ELSE IF compare_fn = 12 /\ x[1] = 2
             THEN Equal(Some("thrown"), TRUE)
             ELSE IF compare_fn = 14
             THEN Equal(Some("conversion"), TRUE)
             ELSE Ord(x[1] < y[1], x[1] > y[1], TRUE)
        ELSE IF x[1] = 50 \/ y[1] = 50
             THEN Equal(Some("conversion"), FALSE)
             ELSE Ord(x[1] < y[1], x[1] > y[1], FALSE)

Compare_no_escape(st, x, y, compare_fn) == Comparison(st, x, y, compare_fn)

\* the closure: once an error is captured nothing is compared any more
Compare(st, x, y, compare_fn) ==
    IF st.error # None THEN [st |-> st, ord |-> "Equal"]
    ELSE Comparison(st, x, y, compare_fn)

\* Array_sort on the Array chain[1] of length 3
Array_sort(ch, compare_fn) ==
    LET Index == << "0", "1", "2" >>
        obj == ch[1]
        len == 3
        values == [i \in 1..len |->
                      IF obj.props[Index[i]] = None THEN None
                      ELSE Some(unwrap_or(obj.props[Index[i]][1].value,
                                          Undefined))]
        \* slice::sort_by on a short vector: insertion sort
        place(v, i, j) ==
            [k \in 1..len |-> IF k <= j \/ k > i THEN v[k]
                              ELSE IF k = j + 1 THEN v[i] ELSE v[k - 1]]
        RECURSIVE insert(_, _, _)
        insert(st, i, j) ==
            IF j = 0 THEN [st EXCEPT !.v = place(@, i, 0)]
            ELSE LET c == Compare(st, st.v[i], st.v[j], compare_fn)
                 IN  IF c.ord = "Less" THEN insert(c.st, i, j - 1)
                     ELSE [c.st EXCEPT !.v = place(@, i, j)]
        RECURSIVE sort_by(_, _)
        sort_by(st, i) ==
            IF i > len THEN st ELSE sort_by(insert(st, i, i - 1), i + 1)
        sorted == sort_by([v |-> values, error |-> None, log |-> << >>], 2)
        RECURSIVE write(_, _, _)
        \* put or delete of every index, in order
        write(c, i, writes) ==
            IF i > len THEN [chain |-> c, writes |-> writes]
            ELSE IF sorted.v[i] # None
            THEN write(put(c, Index[i], sorted.v[i][1], TRUE, TRUE).chain,
                       i + 1, Append(writes, << "put", Index[i] >>))
            ELSE write([c EXCEPT ![1].props[Index[i]] = None],
                       i + 1, Append(writes, << "delete", Index[i] >>))
        written == write(ch, 1, << >>)
    IN  IF sorted.error # None
        THEN [chain |-> ch, ret |-> "Err", error |-> sorted.error[1],
              log |-> sorted.log, writes |-> << >>]
        ELSE [chain |-> written.chain, ret |-> "Ok", error |-> "",
              log |-> sorted.log, writes |-> written.writes]

Sort(compare_fn) ==
    /\ RtStep
    /\ "2" \in DOMAIN chain[1].props
    /\ LET r == Array_sort(chain, compare_fn)
       IN  /\ chain' = r.chain
           /\ rtcall' = [op |-> "sort", count |-> rtcall.count + 1,
                         compare_fn |-> compare_fn, before |-> chain,
                         ret |-> r.ret, error |-> r.error, log |-> r.log,
                         writes |-> r.writes]

(***************************************************************************)
(* rt/scope.rs: JsScope.                                                   *)
(***************************************************************************)
\* variable slots of the largest thin scope
MaxSlots == 3

\* JsScope::new_local_thin: size + 1 items, item 0 the parent
new_local_thin(size, parent) ==
    [class |-> "Scope", extensible |-> FALSE, props |-> << >>,
     items |-> [i \in 0..size |-> IF i = 0 THEN unwrap_or(parent, Undefined)
                                  ELSE Undefined]]

\* JsScope::set_arguments on the scope chain[1].  An index past the end of
\* items stops the program at the access.
SetArguments(arguments) ==
    /\ RtStep
    /\ chain[1].class = "Scope"
    /\ LET items == chain[1].items
           len == Cardinality(DOMAIN items)
           ret == IF len = 2
                  THEN "panic: scope does not have a slot to store arguments"
                  ELSE IF 2 \notin DOMAIN items
                  THEN "panic: index out of bounds"
                  ELSE "Ok"
       IN  /\ chain' = IF ret = "Ok"
                       \* raw_set(2, arguments)
                       THEN [chain EXCEPT ![1].items[2] = arguments]
                       ELSE chain
           /\ rtcall' = [op |-> "set_arguments", count |-> rtcall.count + 1,
                         arguments |-> arguments, before |-> chain,
                         ret |-> ret]

(***************************************************************************)
(* rt/mod.rs: JsDescriptor and descriptor objects.  The values: 100 and    *)
(* 101 are false and true, 8 and 9 are functions, 2 is a number.           *)
(***************************************************************************)
\* 8.10.5 ToPropertyDescriptor of the object chain[1]
to_property_descriptor(ch) ==
    LET has_property(property) == get_property(ch, 1, property).desc # None
        get(property) ==
            unwrap_or(get_property(ch, 1, property).desc[1].value, Undefined)
        to_boolean(v) == v \notin {Undefined, 100}
        is_callable(v) == v \in {8, 9}
        read(property) == IF has_property(property) THEN Some(get(property))
                          ELSE None
        bool(property) == IF has_property(property)
                          THEN Some(to_boolean(get(property))) ELSE None
        getter == read("get")
        setter == read("set")
        Err(error) == [ret |-> "Err", error |-> error, desc |-> default]
    IN  IF getter # None /\ getter[1] # Undefined /\ ~is_callable(getter[1])
        THEN Err("Accessor not callable")
        ELSE IF setter # None /\ setter[1] # Undefined /\ ~is_callable(setter[1])
        THEN Err("Accessor not callable")
        ELSE IF (getter # None \/ setter # None) /\ bool("writable") # None
        THEN Err("Writable invalid on accessor")
        ELSE [ret |-> "Ok", error |-> "",
              desc |-> [value |-> read("value"), get |-> getter,
                        set |-> setter, writable |-> bool("writable"),
                        enumerable |-> bool("enumerable"),
                        configurable |-> bool("configurable")]]

\* a FromPropertyDescriptor that reports every data property as writable
from_property_descriptor_writable(d) ==
    LET new_bool(b) == IF b THEN 101 ELSE 100
        fresh == [class |-> "Object", extensible |-> TRUE,
                  props |-> [a \in {"value", "writable", "get", "set",
                                    "enumerable", "configurable"} |-> None]]
        define(o, property, v) ==
            define_own_property(o, property, new_value(v, TRUE, TRUE, TRUE),
                                FALSE).o
        kind == IF is_data(d)
                THEN define(define(fresh, "value", unwrap_or(d.value, Undefined)),
                            "writable", new_bool(TRUE))
                ELSE IF is_accessor(d)
                THEN define(define(fresh, "get", unwrap_or(d.get, Undefined)),
                            "set", unwrap_or(d.set, Undefined))
                ELSE fresh
    IN  define(define(kind, "enumerable",
                      new_bool(unwrap_or(d.enumerable, FALSE))),
               "configurable", new_bool(unwrap_or(d.configurable, FALSE)))

\* 8.10.4 FromPropertyDescriptor: the object made for the descriptor d
from_property_descriptor(d) ==
    LET new_bool(b) == IF b THEN 101 ELSE 100
        fresh == [class |-> "Object", extensible |-> TRUE,
                  props |-> [a \in {"value", "writable", "get", "set",
                                    "enumerable", "configurable"} |-> None]]
        define(o, property, v) ==
            define_own_property(o, property, new_value(v, TRUE, TRUE, TRUE),
                                FALSE).o
        kind == IF is_data(d)
                THEN define(define(fresh, "value", unwrap_or(d.value, Undefined)),
                            "writable", new_bool(unwrap_or(d.writable, FALSE)))
                ELSE IF is_accessor(d)
                THEN define(define(fresh, "get", unwrap_or(d.get, Undefined)),
                            "set", unwrap_or(d.set, Undefined))
                ELSE fresh
    IN  define(define(kind, "enumerable",
                      new_bool(unwrap_or(d.enumerable, FALSE))),
               "configurable", new_bool(unwrap_or(d.configurable, FALSE)))

\* the descriptor object chain[1] is converted to a descriptor and back,
\* twice
RoundTrip ==
    /\ RtStep
    /\ "writable" \in DOMAIN chain[1].props
    /\ LET d == to_property_descriptor(chain)
           first == from_property_descriptor(d.desc)
           again == to_property_descriptor(<< first >>)
       IN  rtcall' = [op |-> "round_trip", count |-> rtcall.count + 1,
                      before |-> chain, ret |-> d.ret, error |-> d.error,
                      desc |-> d.desc, first |-> first, again |-> again.ret,
                      second |-> from_property_descriptor(again.desc)]
    /\ UNCHANGED chain

\* Intrinsics_registerFunction(target, function).  target is chain[1] or a
\* value that is not an object; function is a number, an object that is not
\* a function, a function without a name, or the function 9 whose name is
\* "x".  constructed is the error JsError::new_type made, returned or not.
Intrinsics_registerFunction(ch, target_is_object, function) ==
    LET Result(c, ret, error, constructed) ==
            [chain |-> c, ret |-> ret, error |-> error,
             constructed |-> constructed]
        r == define_own_property(ch[1], "x", new_value(9, TRUE, FALSE, TRUE),
                                 FALSE)
    IN  IF function = "number" \/ ~target_is_object
        \* the error is made and dropped; the call goes on to Ok(undefined)
        THEN Result(ch, "Ok", "", errors.TYPE_INVALID)
        ELSE IF function = "anonymous"
        THEN Result(ch, "Err", "TYPE_FUNCTION_HAS_NO_NAME",
                    "TYPE_FUNCTION_HAS_NO_NAME")
        ELSE IF function = "object"
        THEN Result(ch, "Err", errors.TYPE_NOT_A_FUNCTION,
                    errors.TYPE_NOT_A_FUNCTION)
        ELSE IF r.ret = "Err" THEN Result(ch, "Err", r.error, r.error)
        ELSE Result([ch EXCEPT ![1] = r.o], "Ok", "", "")

RegisterFunction(target_is_object, function) ==
    /\ RtStep
    /\ "x" \in DOMAIN chain[1].props
    /\ LET r == Intrinsics_registerFunction(chain, target_is_object, function)
       IN  /\ chain' = r.chain
           /\ rtcall' = [op |-> "register_function", count |-> rtcall.count + 1,
                         target_is_object |-> target_is_object,
                         function |-> function, before |-> chain,
                         ret |-> r.ret, error |-> r.error,
                         constructed |-> r.constructed]

\* an object, Array or not, extensible or not, with a prototype; each of
\* the two names is absent or a data property (writable, read-only, frozen)
\* or an accessor (with a setter, with set undefined, with no set at all);
\* or an object with the methods default_value looks for; or the global
\* object with the bindings of the error classes; or an Array of length 3;
\* or a descriptor object; or a thin scope
RtInit ==
    /\ LET Properties == {"0", "x"}
           new_accessor(get, set) ==
               [value |-> None, get |-> get, set |-> set, writable |-> None,
                enumerable |-> Some(TRUE), configurable |-> Some(TRUE)]
           Props == [Properties ->
                        {None,
                         Some(new_value(2, TRUE, TRUE, TRUE)),
                         Some(new_value(2, FALSE, TRUE, TRUE)),
                         Some(new_value(2, FALSE, TRUE, FALSE)),
                         Some(new_accessor(Some(8), Some(9))),
                         Some(new_accessor(Some(8), Some(Undefined))),
                         Some(new_accessor(Some(8), None))}]
           \* toString and valueOf: absent, a data property holding a number
           \* or one of the functions, or an accessor whose getter raises
           Methods == [{"toString", "valueOf"} ->
                          {None, Some(new_accessor(Some(12), None))}
                          \cup {Some(new_value(v, TRUE, FALSE, TRUE)) :
                                   v \in {2, 10, 11, 12, 13}}]
           \* the global bindings of the error classes: missing, a number or
           \* one of the constructors
           Globals == [{"TypeError", "RangeError"} ->
                          {None} \cup {Some(new_value(v, TRUE, FALSE, TRUE)) :
                                          v \in {2, 20, 21, 22}}]
           \* the elements of an Array of length 3: a hole, undefined, a
           \* number or an object whose conversion raises
           ArrayElements == [{"0", "1", "2"} ->
                           {None} \cup {Some(new_value(v, TRUE, TRUE, TRUE)) :
                                           v \in {Undefined, 1, 2, 50}}]
       IN  chain \in
               {<< [class |-> c, extensible |-> e, props |-> own],
                   [class |-> "Object", extensible |-> TRUE, props |-> inh] >> :
                   c \in {"Array", "Object"}, e \in BOOLEAN,
                   own \in Props, inh \in Props}
               \cup {<< [class |-> "Object", extensible |-> TRUE, props |-> m] >> :
                        m \in Methods \cup Globals}
               \cup {<< [class |-> "Array", extensible |-> TRUE, props |-> m] >> :
                        m \in ArrayElements}
               \* a descriptor object: each attribute absent or a data
               \* property
               \cup {<< [class |-> "Object", extensible |-> TRUE,
                         props |-> [a \in DOMAIN m |->
                                       IF m[a] = None THEN None
                                       ELSE Some(new_value(m[a][1], TRUE, TRUE,
                                                           TRUE))]] >> :
                        m \in [value : {None, Some(Undefined), Some(2)},
                               writable : {None, Some(100), Some(101), Some(2),
                                           Some(Undefined)},
                               get : {None, Some(Undefined), Some(8), Some(2)},
                               set : {None, Some(Undefined), Some(9)},
                               enumerable : {None, Some(100), Some(101),
                                             Some(2)},
                               configurable : {None, Some(101),
                                               Some(Undefined)}]}
               \* a thin scope, its variables set
               \cup UNION {LET thin == new_local_thin(n, parent)
                           IN  {<< [thin EXCEPT !.items =
                                       [i \in 0..n |-> IF i = 0 THEN @[0]
                                                       ELSE v[i]]] >> :
                                   v \in [1..n -> {Undefined, 5}]} :
                           n \in 0..MaxSlots, parent \in {None, Some(7)}}
    /\ rtcall = [op |-> "none", count |-> 0]
    /\ hash = HashNew(0)
    /\ hstatus = "running"
    /\ lastOp = NoOp
    /\ overflow_checks = FALSE
    /\ ops = 0
    /\ scopes = << >>
    /\ objs = << >>
    /\ top = 0
    /\ ptrs = << >>
    /\ free = << >>
    /\ live = {}
    /\ released = {}
    /\ stack = << >>
    /\ active = 0
    /\ gstatus = "running"
    /\ lastGc = NoGc
    /\ gops = 0
    /\ finalizedLog = << >>
    /\ lastCall = NoCall
    /\ frames = << >>
    /\ eresult = NoResult
    /\ borrows = NoBorrows

RtNext ==
    \/ \E property \in {"0", "x"}, throw \in BOOLEAN, callee_ok \in BOOLEAN :
          Put(property, 3, throw, callee_ok)
    \/ \E property \in {"0", "x"} : CanPut(property)
    \/ \E hint \in {"None", "String", "Number"},
          is_date \in {"true", "false", "Err"} :
          DefaultValue(hint, is_date)
    \/ \E name \in {"TypeError", "RangeError"} : NewRuntime(name)
    \/ \E compare_fn \in {Undefined, 2, 10, 12, 14} : Sort(compare_fn)
    \/ \E arguments \in {6} : SetArguments(arguments)
    \/ RoundTrip
    \/ \E target_is_object \in BOOLEAN,
          function \in {"number", "object", "anonymous", "named"} :
          RegisterFunction(target_is_object, function)

SpecHash == HashInit /\ [][HashNext]_vars

SpecGc == GcInit /\ [][GcNext]_vars

SpecEnv == EnvInit /\ [][EnvNext]_vars

\* the heaps of GcInit, with the collection in two steps
SpecBorrow == GcInit /\ [][BorrowNext]_vars

SpecRt == RtInit /\ [][RtNext]_vars

(***************************************************************************)
(* Properties of the hash store.                                           *)
(***************************************************************************)
\* r carries every field that descriptor d defines for its kind
Carries(r, d) ==
    /\ is_accessor(d) =>
          /\ d.get # None => r.get = d.get
          /\ d.set # None => r.set = d.set
    /\ ~is_accessor(d) =>
          /\ d.value # None => r.value = d.value
          /\ d.writable # None => r.writable = d.writable
    /\ d.enumerable # None => r.enumerable = d.enumerable
    /\ d.configurable # None => r.configurable = d.configurable

\* C1: directly after add(N, d) returns, get_value(N) is a descriptor that
\* carries d's value (or get/set) and attribute bits; directly after a
\* remove(N) that returned true, get_value(N) is None.
C1_LookupAfterInsertDelete ==
    /\ (hstatus = "running" /\ lastOp.op = "add") =>
          /\ get_value(hash, lastOp.name) # None
          /\ Carries(get_value(hash, lastOp.name)[1], lastOp.value)
    /\ (hstatus = "running" /\ lastOp.op = "remove" /\ lastOp.result) =>
          get_value(hash, lastOp.name) = None

\* an add that stored its entry away from the home bucket, in a chain
C1_Witness ==
    /\ hstatus = "running"
    /\ lastOp.op = "add"
    /\ lastOp.path = "chain"
    /\ is_accessor(lastOp.value)
    /\ find_entry(hash, lastOp.name) # None
    /\ find_entry(hash, lastOp.name)[1] # home(hash, lastOp.name)

RECURSIVE ChainFrom(_, _, _)
\* the slots met from slot i along the next links, at most fuel of them
ChainFrom(h, i, fuel) ==
    IF i = -1 \/ fuel = 0 THEN << >>
    ELSE << i >> \o ChainFrom(h, h.entries[i].next, fuel - 1)

Chain(h, b) == ChainFrom(h, b, capacity(h) + 1)

SeqRange(q) == {q[k] : k \in 1..Len(q)}

ChainInvariant(h) ==
    \A i \in DOMAIN h.entries :
        is_valid(h.entries[i]) =>
            LET b == home(h, h.entries[i].name)
                c == Chain(h, b)
            IN  /\ Len(c) <= capacity(h)
                /\ Cardinality(SeqRange(c)) = Len(c)
                /\ i \in SeqRange(c)
                /\ \A k \in 1..Len(c) :
                      /\ is_valid(h.entries[c[k]])
                      /\ home(h, h.entries[c[k]].name) = b

\* C4: every valid entry lies on the chain of its home bucket; every slot of
\* that chain is valid and belongs to that bucket; the chain is acyclic and
\* ends with next = -1.
C4_ChainInvariant == ChainInvariant(hash)

\* a remove moved a chain successor into the home bucket and the store
\* still holds a chain of two
C4_Witness ==
    /\ lastOp.op = "remove"
    /\ lastOp.path = "head_next"
    /\ lastOp.present
    /\ \E i \in DOMAIN hash.entries :
          /\ is_valid(hash.entries[i])
          /\ Len(Chain(hash, home(hash, hash.entries[i].name))) >= 2

C6_RemoveAbsent ==
    [][(lastOp'.op = "remove" /\ ~lastOp'.present) =>
          /\ hstatus' = "running"
          /\ lastOp'.result = FALSE
          /\ hash' = hash]_hvars

NumValid(h) == Cardinality({i \in DOMAIN h.entries : is_valid(h.entries[i])})

\* C7: the population counter equals the number of valid slots.
C7_CountIsValidSlots == hash.count = NumValid(hash)

\* C8: after an add returns, count * 10 <= capacity * 7.
C8_LoadFactor ==
    (hstatus = "running" /\ lastOp.op = "add") =>
        hash.count * 10 <= capacity(hash) * 7

\* the least entry of the prime table that is >= m
LeastTablePrime(m) ==
    CHOOSE p \in SeqRange(PRIMES) :
        /\ p >= m
        /\ \A q \in SeqRange(PRIMES) : q >= m => p <= q

AllRootSlots(r) ==
    {<< "root", i - 1, 0, 0 >> : i \in {j \in 1..Len(r.ptrs) : r.ptrs[j] # Null}}
    \cup LocalSlotsOf(r.scopes)
    \cup StackSlotsOf(r.stack)

PointerWords(o) == {o.words[i + 1] : i \in {j \in 0..(Len(o.words) - 1) :
                                                 walk(o.ty, j) = "Pointer"}}

RECURSIVE Closure(_, _)
\* the addresses reachable from the set S through Pointer words
Closure(os, S) ==
    LET N == (S \cup UNION {PointerWords(os[a]) : a \in S \cap DOMAIN os}) \ {Null}
    IN  IF N = S THEN S ELSE Closure(os, N)

Reachable(os, r) == Closure(os, {SlotGet(r, s) : s \in AllRootSlots(r)} \ {Null})

\* C2: after a collection the objects of the active semispace are exactly
\* the objects reachable from the root slots: every object reachable before
\* was copied, and nothing unreachable was.
C2_SurvivorsAreReachable ==
    lastGc.ran =>
        /\ DOMAIN lastGc.fwd = Reachable(lastGc.fromObjs, lastGc.before)
        /\ DOMAIN lastGc.toObjs = {lastGc.fwd[a] : a \in DOMAIN lastGc.fwd}
        /\ DOMAIN lastGc.toObjs = Reachable(lastGc.toObjs, lastGc.after)

\* a collection that kept an object reachable only through a heap field
\* and dropped an unreachable one
C2_Witness ==
    /\ lastGc.ran
    /\ gstatus = "running"
    /\ \E a \in DOMAIN lastGc.fromObjs : a \notin DOMAIN lastGc.fwd
    /\ \E a \in DOMAIN lastGc.fwd :
          a \notin {SlotGet(lastGc.before, s) : s \in AllRootSlots(lastGc.before)}

\* the references of the collected heap, as pairs <<before, after>>: the
\* root slots and the pointer words of the copied objects
GcRefs ==
    {<< SlotGet(lastGc.before, s), SlotGet(lastGc.after, s) >> :
        s \in AllRootSlots(lastGc.before)}
    \cup UNION {{<< lastGc.fromObjs[a].words[i + 1],
                    lastGc.toObjs[lastGc.fwd[a]].words[i + 1] >> :
                    i \in {j \in 0..(Len(lastGc.fromObjs[a].words) - 1) :
                              walk(lastGc.fromObjs[a].ty, j) = "Pointer"}} :
                a \in DOMAIN lastGc.fwd}

\* C3: a collection copies an object once, however many slots and fields
\* refer to it, and rewrites every reference to it to the one new address.
C3_CopiedOnce ==
    lastGc.ran =>
        /\ Cardinality(SeqRange(lastGc.copies)) = Len(lastGc.copies)
        /\ \A a, b \in DOMAIN lastGc.fwd :
              lastGc.fwd[a] = lastGc.fwd[b] => a = b
        /\ \A p \in GcRefs :
              p[1] # Null => (p[1] \in DOMAIN lastGc.fwd /\ p[2] = lastGc.fwd[p[1]])

\* an object held by several root slots and by a heap field was collected
C3_Witness ==
    /\ lastGc.ran
    /\ \E a \in DOMAIN lastGc.fwd :
          /\ Cardinality({s \in AllRootSlots(lastGc.before) :
                             SlotGet(lastGc.before, s) = a}) >= 2
          /\ \E b \in DOMAIN lastGc.fwd : a \in PointerWords(lastGc.fromObjs[b])

\* C10: a collection is shown every non-null root table slot, every slot of
\* every scope (current vector and history) and every slot of the extra
\* walkers, each once, and every walker keeps returning null when it is done.
C10_RootSetPresented ==
    lastGc.ran =>
        /\ Cardinality(SeqRange(lastGc.presented)) = Len(lastGc.presented)
        /\ SeqRange(lastGc.presented) = AllRootSlots(lastGc.before)
        /\ lastGc.exhausted

\* a collection with a released root slot, a scope history and a stack slot
C10_Witness ==
    /\ lastGc.ran
    /\ \E i \in 1..Len(lastGc.before.ptrs) : lastGc.before.ptrs[i] = Null
    /\ \E s \in SeqRange(lastGc.presented) : s[1] = "local" /\ s[3] > 0
    /\ \E s \in SeqRange(lastGc.presented) : s[1] = "stack"
    /\ \E s \in SeqRange(lastGc.presented) : s[1] = "root"

(***************************************************************************)
(* Properties of handles and scopes.                                       *)
(***************************************************************************)
\* the calls that create a Local
LocalCreators == {"alloc_local", "alloc_array_local", "alloc_local_from_root",
                  "alloc_local_from_ptr"}

\* the calls that create a Root
RootCreators == {"alloc_root", "alloc_array_root", "alloc_root_from_local",
                 "clone_root"}

\* the Locals handed out in the live scopes
Locals(sc) ==
    UNION {UNION {{<< s - 1, b, i - 1 >> :
                      i \in 1..Len(IF b < Len(sc[s].handles)
                                   THEN sc[s].handles[b + 1]
                                   ELSE sc[s].current)} :
                  b \in 0..Len(sc[s].handles)} :
           s \in 1..Len(sc)}

\* C11: every Local handed out in a scope that stays live resolves to the
\* same object after any call, also a call that retires the full current
\* vector of the scope to the history list and installs a vector of twice
\* the capacity: the address read through the Local is the one read before,
\* or the address the collection of that call moved the object to.
C11_LocalsStable ==
    [][\A l \in Locals(scopes) :
          l[1] < Len(scopes') =>
              LET a == Local_deref(scopes, l)
                  b == Local_deref(scopes', l)
              IN  IF lastGc'.ran
                  THEN a \in DOMAIN lastGc'.fwd /\ b = lastGc'.fwd[a]
                  ELSE b = a]_vars

\* a Local was just created in the first slot of a doubled vector, the full
\* vector before it retired to the history list with its Locals
C11_Witness ==
    /\ lastCall.op \in LocalCreators
    /\ lastCall.panic = NoPanic
    /\ lastCall.ret[2] = 1
    /\ lastCall.ret[3] = 0
    /\ LET d == scopes[lastCall.ret[1] + 1]
       IN  /\ Len(d.handles) = 1
           /\ Len(d.handles[1]) = INITIAL_LOCAL_SCOPE_CAPACITY
           /\ d.cap = 2 * INITIAL_LOCAL_SCOPE_CAPACITY
           /\ \A i \in 1..Len(d.handles[1]) : d.handles[1][i] # Null

\* C12: dropping a LocalScope that is not the most recently created live
\* scope panics and leaves the scope stack as it was; dropping the top
\* scope returns and pops that scope and no other.
C12_ScopeOrder ==
    [][lastCall'.op = "drop_scope" =>
          IF lastCall'.arg[1] + 1 # Len(scopes)
          THEN /\ gstatus' = "panic"
               /\ lastCall'.panic = panics.SCOPE_ORDER
               /\ scopes' = scopes
          ELSE /\ gstatus' = "running"
               /\ lastCall'.panic = NoPanic
               /\ Len(scopes') = Len(scopes) - 1
               /\ \A k \in 1..Len(scopes') : scopes'[k] = scopes[k]]_vars

\* the LocalScope of the outer of two live scopes was just dropped
C12_Witness ==
    /\ lastCall.op = "drop_scope"
    /\ lastCall.arg[1] = 0
    /\ Len(scopes) = 2
    /\ gstatus = "panic"

\* C13 as stated: creating a Local while no LocalScope is live panics with
\* 'no local scope present', returns no handle and registers no root slot.
C13_NoScopeAlwaysNoScopePanic ==
    [][(lastCall'.op \in LocalCreators /\ Len(scopes) = 0) =>
          /\ gstatus' = "panic"
          /\ lastCall'.panic = panics.NO_SCOPE
          /\ lastCall'.ret = NoArg
          /\ scopes' = << >>
          /\ Len(ptrs') = Len(ptrs) /\ free' = free /\ live' = live]_vars

\* C13: creating a Local while no LocalScope is live is fatal, returns no
\* handle and registers no root slot; the panic is 'no local scope present'
\* unless the allocation that alloc_local and alloc_array_local make before
\* they look at the scope stack fails, which panics with 'could not
\* allocate memory after GC'.
C13_NoScopeIsFatal ==
    [][(lastCall'.op \in LocalCreators /\ Len(scopes) = 0) =>
          /\ gstatus' = "panic"
          /\ lastCall'.panic =
                 IF lastCall'.alloc.attempts = 2 /\ lastCall'.alloc.addr = Null
                 THEN panics.ALLOC ELSE panics.NO_SCOPE
          /\ lastCall'.ret = NoArg
          /\ scopes' = << >>
          /\ Len(ptrs') = Len(ptrs) /\ free' = free /\ live' = live]_vars

\* a Root was just promoted to a Local with no scope live
C13_Witness ==
    /\ lastCall.op = "alloc_local_from_root"
    /\ lastCall.panic = panics.NO_SCOPE
    /\ scopes = << >>
    /\ live # {}
    /\ gstatus = "panic"

\* C14: reading the target of a Root whose slot was released panics with
\* 'root is not valid anymore' and yields no address, after the release
\* alone and after the slot was reused by another Root.
C14_ReleasedRootRead ==
    [][(lastCall'.op = "get_target" /\ lastCall'.arg[2]) =>
          /\ gstatus' = "panic"
          /\ lastCall'.panic = panics.ROOT
          /\ lastCall'.ret = NoArg]_vars

\* C15: dropping a Root nulls its slot and pushes the index on the free
\* list, the other slots unchanged; a Root created while the free list is
\* not empty takes the most recently freed slot, null at that moment, and
\* the table does not grow.
C15_DropRootFreesSlot ==
    [][/\ lastCall'.op = "drop_root" =>
             LET h == lastCall'.arg[1]
             IN  /\ ptrs'[h + 1] = Null
                 /\ free' = Append(free, h)
                 /\ Len(ptrs') = Len(ptrs)
                 /\ \A i \in 1..Len(ptrs) : i # h + 1 => ptrs'[i] = ptrs[i]
       /\ (lastCall'.op \in RootCreators /\ lastCall'.panic = NoPanic
             /\ free # << >>) =>
             LET i == lastCall'.ret[1]
             IN  /\ i = free[Len(free)]
                 /\ free' = SubSeq(free, 1, Len(free) - 1)
                 /\ Len(ptrs') = Len(ptrs)
                 /\ ptrs[i + 1] = Null
                 /\ ptrs'[i + 1] # Null]_vars

\* a Root was dropped while an older free slot was waiting, and the next
\* Root took the slot of the dropped one
C15_Witness ==
    /\ lastCall.op \in RootCreators
    /\ lastCall.panic = NoPanic
    /\ lastCall.ret = << 1 >>
    /\ 1 \in released
    /\ free = << 0 >>
    /\ Len(ptrs) = 2
    /\ gops >= 2

\* the root table is well formed: free slots are null, no index is twice
\* on the free list or both free and held by a live Root, and every slot
\* is either free or held
RootTableInv(ps, fr, lv) ==
    /\ \A k \in 1..Len(fr) : fr[k] < Len(ps) /\ ps[fr[k] + 1] = Null
    /\ \A j, k \in 1..Len(fr) : j # k => fr[j] # fr[k]
    /\ \A k \in 1..Len(fr) : fr[k] \notin lv
    /\ \A h \in lv : h < Len(ps)
    /\ Len(ps) = Cardinality(lv) + Len(fr)

\* C16: cloning a Root hands out a slot index no live Root holds, stores
\* the address of the original in it and leaves the original as it was;
\* every Root created gets an index no live Root holds, and after any call
\* the free slots are null, occur once on the free list, and
\* len(ptrs) = number of live Roots + len(free).
C16_RootSlotsDistinct ==
    [][/\ (lastCall'.op = "clone_root" /\ lastCall'.panic = NoPanic) =>
             LET h == lastCall'.arg[1]
                 i == lastCall'.ret[1]
             IN  /\ i \notin live
                 /\ ptrs'[i + 1] = ptrs[h + 1]
                 /\ ptrs'[h + 1] = ptrs[h + 1]
                 /\ ptrs[h + 1] # Null
                 /\ live' = live \cup {i}
       /\ (lastCall'.op \in RootCreators /\ lastCall'.panic = NoPanic) =>
             /\ lastCall'.ret[1] \notin live
             /\ Cardinality(live') = Cardinality(live) + 1
       /\ RootTableInv(ptrs', free', live')]_vars

\* a Root was cloned into a slot that another Root had released
C16_Witness ==
    /\ lastCall.op = "clone_root"
    /\ lastCall.panic = NoPanic
    /\ lastCall.ret[1] \in released
    /\ Cardinality(live) = 2
    /\ ptrs[lastCall.ret[1] + 1] = ptrs[lastCall.arg[1] + 1]
    /\ RootTableInv(ptrs, free, live)

(***************************************************************************)
(* Properties of allocation and finalization.                              *)
(***************************************************************************)
RECURSIVE HeapWordsFrom(_, _)
HeapWordsFrom(os, a) ==
    IF a > 2 * SemiSize + 2 THEN 0
    ELSE (IF a \in DOMAIN os THEN ObjSize(os[a]) ELSE 0) + HeapWordsFrom(os, a + 1)

\* the words the objects os take in a semispace
HeapWords(os) == HeapWordsFrom(os, 1)

CallsFor(calls, a) == SelectSeq(calls, LAMBDA c : c.obj = a)

\* C18: a collection calls finalize exactly once, with its type and old
\* address, for every object it frees and never for an object it copies;
\* for a freed array it calls finalize per element, in element order, and
\* stops after the first element the walker answers NotFinalizable for; no
\* object (or array element) is finalized again by a later collection.
C18_FinalizeOnce ==
    /\ lastGc.ran =>
          /\ \A a \in DOMAIN lastGc.fromObjs :
                LET o == lastGc.fromObjs[a]
                    cs == CallsFor(lastGc.finalized, a)
                IN  IF a \in DOMAIN lastGc.fwd THEN cs = << >>
                    ELSE IF ~o.array
                    THEN Len(cs) = 1 /\ cs[1].ty = o.ty /\ cs[1].ptr = a
                    ELSE /\ \A k \in 1..Len(cs) :
                               /\ cs[k].elem = k - 1
                               /\ cs[k].ty = o.ty
                               /\ cs[k].ptr = a + 1 + (k - 1) * PayloadWords(o.ty)
                         /\ Len(cs) <= ArrayLen(o)
                         /\ Len(cs) > 1 => finalize(o.ty) = "Finalized"
                         /\ Len(cs) < ArrayLen(o) =>
                               Len(cs) = 1 /\ finalize(o.ty) = "NotFinalizable"
          /\ \A k \in 1..Len(lastGc.finalized) :
                lastGc.finalized[k].obj \in DOMAIN lastGc.fromObjs
    /\ \A j, k \in 1..Len(finalizedLog) :
          j # k => finalizedLog[j] # finalizedLog[k]

\* the second collection of a run freed an object after an earlier one
\* freed an array of two finalizable elements, and an object survived
C18_Witness ==
    /\ lastGc.ran
    /\ lastGc.finalized # << >>
    /\ Len(finalizedLog) > Len(lastGc.finalized)
    /\ \E k \in 1..Len(finalizedLog) : finalizedLog[k][2] = 1
    /\ lastCall.op = "gc"

(***************************************************************************)
(* Properties of the calls into the runtime.                               *)
(***************************************************************************)
\* C19: when run_strict, eval or new_error returns, Ok or Err from any
\* statement, the scope stack has the depth it had when the call started
\* and the scopes below are untouched: the scope the call opened was
\* dropped as the top scope, without a panic.
C19_ScopesReleased ==
    [][Len(frames') < Len(frames) =>
          LET f == frames[Len(frames)]
          IN  /\ gstatus' = "running"
              /\ Len(scopes') = f.depth0
              /\ \A k \in 1..f.depth0 : scopes'[k] = scopes[k]
              /\ eresult'.fn = f.fn
              /\ eresult'.depth = eresult'.depth0]_vars

\* a call nested in another returned Err after it had opened its scope
C19_Witness ==
    /\ eresult.result = "Err"
    /\ eresult.opened
    /\ eresult.depth0 >= 1
    /\ Len(frames) >= 1
    /\ Len(scopes) = eresult.depth0

(***************************************************************************)
(* Properties of the RefCells.                                             *)
(***************************************************************************)
\* a collection is in progress
Collecting == borrows # NoBorrows

ReentrantOps ==
    {"alloc_root_from_local", "alloc_root", "clone_root", "drop_root",
     "new_local_scope", "drop_current_scope", "alloc_local_from_ptr",
     "alloc_local"}

RECURSIVE HashIter_next_stale(_, _)
\* an iterator that does not look at the VALID bit
HashIter_next_stale(entries, offset) ==
    IF offset < Cardinality(DOMAIN entries)
    THEN [item |-> Some(entries[offset].name), offset |-> offset + 1]
    ELSE [item |-> None, offset |-> offset]

RECURSIVE HashIter_next(_, _)
\* HashIter::next: skips to the next valid slot at or after offset
HashIter_next(entries, offset) ==
    IF offset < Cardinality(DOMAIN entries)
    THEN IF is_valid(entries[offset])
         THEN [item |-> Some(entries[offset].name), offset |-> offset + 1]
         ELSE HashIter_next(entries, offset + 1)
    ELSE [item |-> None, offset |-> offset]

RECURSIVE key_iter_from(_, _)
\* Hash::key_iter driven to its end from offset: the names yielded, in order
key_iter_from(h, offset) ==
    LET n == HashIter_next(h.entries, offset)
    IN  IF n.item = None THEN << >>
        ELSE << n.item[1] >> \o key_iter_from(h, n.offset)

\* C30: the names key_iter yields are the names of the valid slots in
\* ascending slot order, each once, and they are exactly the names a
\* lookup finds: no name that was removed or never added is yielded.
C30_KeyIter ==
    LET keys == key_iter_from(hash, 0)
        slots == {i \in DOMAIN hash.entries : is_valid(hash.entries[i])}
        slot(n) == CHOOSE i \in slots : hash.entries[i].name = n
    IN  /\ Len(keys) = Cardinality(slots)
        /\ \A i, j \in 1..Len(keys) :
              i < j => keys[i] # keys[j] /\ slot(keys[i]) < slot(keys[j])
        /\ {keys[i] : i \in 1..Len(keys)}
              = {n \in Names : get_value(hash, n) # None}

\* a remove left an invalid slot, with its stale name, between two slots
\* the iterator yields
C30_Witness ==
    /\ lastOp.op = "remove"
    /\ lastOp.result
    /\ Len(key_iter_from(hash, 0)) >= 2
    /\ \E i, j, k \in DOMAIN hash.entries :
          /\ i < j /\ j < k
          /\ is_valid(hash.entries[i])
          /\ ~is_valid(hash.entries[j]) /\ hash.entries[j].name # 0
          /\ is_valid(hash.entries[k])

(***************************************************************************)
(* Properties of put.                                                      *)
(***************************************************************************)
\* the descriptor put finds for the name on the prototypes of b[1]
Inherited(b, property) ==
    IF Len(b) > 1 THEN get_property(b, 2, property).desc ELSE None

\* the accessor d has a setter
HasSetter(d) == d.set # None /\ d.set[1] # Undefined

\* [[CanPut]] of ECMA-262 8.12.4 is false for the name on b[1]
CannotPut(b, property) ==
    LET own == b[1].props[property]
        inh == Inherited(b, property)
    IN  IF own # None
        THEN IF is_accessor(own[1]) THEN ~HasSetter(own[1])
             ELSE own[1].writable # Some(TRUE)
        ELSE IF inh # None
        THEN IF is_accessor(inh[1]) THEN ~HasSetter(inh[1])
             ELSE ~b[1].extensible \/ inh[1].writable # Some(TRUE)
        ELSE ~b[1].extensible

\* no own property of the name, extensible, and the prototype chain holds a
\* data property for it that is not writable
ReadOnlyOnPrototype(b, property) ==
    /\ b[1].props[property] = None
    /\ b[1].extensible
    /\ Inherited(b, property) # None
    /\ is_data(Inherited(b, property)[1])
    /\ Inherited(b, property)[1].writable = Some(FALSE)

\* C21: with a read-only data property for the name on the prototype chain,
\* no own property and an extensible object, put on an Array with an index
\* name creates the own property with the value (writable, enumerable,
\* configurable) and returns Ok, whatever throw is; for any other object or
\* name the put is rejected and changes nothing.
C21_ArrayIndexBypass ==
    (rtcall.op = "put" /\ ReadOnlyOnPrototype(rtcall.before, rtcall.property)) =>
        IF rtcall.before[1].class = "Array" /\ is_index(rtcall.property)
        THEN /\ rtcall.ret = "Ok"
             /\ rtcall.calls = << >>
             /\ chain = [rtcall.before EXCEPT
                            ![1].props[rtcall.property] =
                                Some(new_value(rtcall.value, TRUE, TRUE, TRUE))]
        ELSE /\ chain = rtcall.before
             /\ rtcall.calls = << >>
             /\ rtcall.ret = IF rtcall.throw THEN "Err" ELSE "Ok"

\* a strict put of "0" on an Array whose prototype holds a read-only "0"
C21_Witness ==
    /\ rtcall.op = "put"
    /\ ReadOnlyOnPrototype(rtcall.before, rtcall.property)
    /\ rtcall.before[1].class = "Array"
    /\ rtcall.property = "0"
    /\ rtcall.throw
    /\ chain[1].props["0"] # None

\* C22: when the property put finds is an accessor, own or inherited, put
\* creates and changes no property; when the accessor has a setter, that
\* setter is called exactly once, on the object put was called on and with
\* the value as its only argument; without a setter nothing but undefined
\* is called, in the same way.
C22_SetterThis ==
    LET found == get_property(rtcall.before, 1, rtcall.property)
    IN  (rtcall.op = "put" /\ found.desc # None /\ is_accessor(found.desc[1])) =>
            /\ chain = rtcall.before
            /\ IF HasSetter(found.desc[1])
               THEN rtcall.calls = << [callee |-> found.desc[1].set[1],
                                       this |-> 1,
                                       args |-> << rtcall.value >>] >>
               ELSE \A k \in 1..Len(rtcall.calls) :
                       rtcall.calls[k] = [callee |-> Undefined, this |-> 1,
                                          args |-> << rtcall.value >>]

\* the setter of an accessor held by the prototype was called
C22_Witness ==
    /\ rtcall.op = "put"
    /\ rtcall.before[1].props[rtcall.property] = None
    /\ get_property(rtcall.before, 1, rtcall.property).holder = 2
    /\ Len(rtcall.calls) = 1
    /\ rtcall.ret = "Ok"

\* C23: for an object that is not an Array, or a name that is not an index,
\* a put that [[CanPut]] forbids calls no setter and changes no property of
\* the object or its prototypes; it returns Ok when throw is false and the
\* TypeError of TYPE_CANNOT_PUT when throw is true.
C23_RejectedPut ==
    (/\ rtcall.op = "put"
     /\ rtcall.before[1].class # "Array" \/ ~is_index(rtcall.property)
     /\ CannotPut(rtcall.before, rtcall.property)) =>
        /\ chain = rtcall.before
        /\ rtcall.calls = << >>
        /\ IF rtcall.throw
           THEN rtcall.ret = "Err" /\ rtcall.error = errors.TYPE_CANNOT_PUT
           ELSE rtcall.ret = "Ok"

\* a strict put on an Object refused because of a read-only property of
\* the prototype
C23_Witness ==
    /\ rtcall.op = "put"
    /\ rtcall.before[1].class = "Object"
    /\ ReadOnlyOnPrototype(rtcall.before, rtcall.property)
    /\ rtcall.throw
    /\ rtcall.ret = "Err"

\* C24: a put rejected with throw = true names its cause: the message of
\* TYPE_PROPERTY_ONLY_HAS_GETTER for an accessor without a setter, that of
\* TYPE_CANNOT_WRITE for a data property that is not writable.
C24_RejectionNamesCause ==
    LET found == get_property(rtcall.before, 1, rtcall.property)
    IN  (/\ rtcall.op = "put"
         /\ rtcall.throw
         /\ rtcall.before[1].class # "Array" \/ ~is_index(rtcall.property)
         /\ CannotPut(rtcall.before, rtcall.property)
         /\ found.desc # None) =>
            /\ rtcall.ret = "Err"
            /\ IF is_accessor(found.desc[1])
               THEN rtcall.error = errors.TYPE_PROPERTY_ONLY_HAS_GETTER
               ELSE found.desc[1].writable = Some(FALSE) =>
                        rtcall.error = errors.TYPE_CANNOT_WRITE

(***************************************************************************)
(* Properties of default_value.                                            *)
(***************************************************************************)
\* what asking the object for the method and trying it comes to: "none"
\* (not callable), "primitive", "object" or "raises"
MethodKind(b, property) ==
    LET d == b[1].props[property]
    IN  IF d = None THEN "none"
        ELSE IF is_accessor(d[1]) THEN "raises"
        ELSE IF d[1].value[1] \in {10, 13} THEN "primitive"
        ELSE IF d[1].value[1] = 11 THEN "object"
        ELSE IF d[1].value[1] = 12 THEN "raises"
        ELSE "none"

\* the function that asking for the method calls, as a sequence
MethodCall(b, property) ==
    LET d == b[1].props[property]
    IN  IF d = None THEN << >>
        ELSE IF is_accessor(d[1]) THEN << d[1].get[1] >>
        ELSE IF d[1].value[1] \in 10..13 THEN << d[1].value[1] >>
        ELSE << >>

C26_NewRuntimeReturns ==
    rtcall.op = "new_runtime" => rtcall.ret = "returned"

(***************************************************************************)
(* Properties of Array.prototype.sort.                                     *)
(***************************************************************************)
\* the comparisons of the last sort that raised
Raising == {i \in 1..Len(rtcall.log) : rtcall.log[i].raised # None}

\* C27: when a comparison of a sort raises, sort returns the first error
\* raised, makes no comparison and no call of the comparator after it, and
\* makes no put or delete: the array is as before the call.
C27_SortError ==
    (rtcall.op = "sort" /\ Raising # {}) =>
        LET first == CHOOSE i \in Raising : \A j \in Raising : i <= j
        IN  /\ rtcall.ret = "Err"
            /\ rtcall.error = rtcall.log[first].raised[1]
            /\ first = Len(rtcall.log)
            /\ rtcall.writes = << >>
            /\ chain = rtcall.before

\* a comparator raised after a comparison that succeeded, with elements
\* still to insert
C27_Witness ==
    /\ rtcall.op = "sort"
    /\ rtcall.compare_fn = 12
    /\ Len(rtcall.log) = 2
    /\ rtcall.log[2].raised = Some("thrown")
    /\ rtcall.before[1].props["2"] # None
    /\ rtcall.ret = "Err"

(***************************************************************************)
(* Properties of JsScope.                                                  *)
(***************************************************************************)
\* C28: set_arguments on a thin scope of any number of slots fails and
\* leaves every slot of the scope as it was.
C28_ThinScopeRejects ==
    rtcall.op = "set_arguments" =>
        /\ rtcall.ret # "Ok"
        /\ chain = rtcall.before

(***************************************************************************)
(* Properties of the descriptor conversions.                               *)
(***************************************************************************)
\* the value of the attribute a of the descriptor object o
Attribute(o, a) == o.props[a][1].value[1]

\* ToBoolean of the values of the model
Truthy(v) == v \notin {0, 100}

\* the object holds a valid combination of attributes (8.10.5): callable
\* or undefined accessors, and no accessor attribute next to a data one
ValidCombination(o) ==
    /\ o.props["get"] # None => Attribute(o, "get") \in {0, 8, 9}
    /\ o.props["set"] # None => Attribute(o, "set") \in {0, 8, 9}
    /\ ~ /\ (o.props["get"] # None \/ o.props["set"] # None)
         /\ (o.props["value"] # None \/ o.props["writable"] # None)

\* C29: for a descriptor object with a valid combination of attributes,
\* from_property_descriptor(to_property_descriptor(obj)) agrees with obj
\* on every attribute obj defines, booleans compared after ToBoolean, and
\* a second round trip gives the same object again.
C29_RoundTrip ==
    (rtcall.op = "round_trip" /\ ValidCombination(rtcall.before[1])) =>
        LET obj == rtcall.before[1]
        IN  /\ rtcall.ret = "Ok"
            /\ \A a \in {"value", "get", "set"} :
                  obj.props[a] # None =>
                      /\ rtcall.first.props[a] # None
                      /\ Attribute(rtcall.first, a) = Attribute(obj, a)
            /\ \A a \in {"writable", "enumerable", "configurable"} :
                  obj.props[a] # None =>
                      /\ rtcall.first.props[a] # None
                      /\ Truthy(Attribute(rtcall.first, a))
                            = Truthy(Attribute(obj, a))
            /\ rtcall.again = "Ok"
            /\ rtcall.second = rtcall.first

\* a data descriptor object with a truthy number for enumerable and no
\* configurable went through the round trip
C29_Witness ==
    /\ rtcall.op = "round_trip"
    /\ ValidCombination(rtcall.before[1])
    /\ rtcall.before[1].props["value"] # None
    /\ rtcall.before[1].props["writable"] # None
    /\ Attribute(rtcall.before[1], "writable") = 100
    /\ rtcall.before[1].props["enumerable"] # None
    /\ Attribute(rtcall.before[1], "enumerable") = 2
    /\ rtcall.before[1].props["configurable"] = None
    /\ Attribute(rtcall.first, "enumerable") = 101
    /\ Attribute(rtcall.first, "configurable") = 100

(***************************************************************************)
(* Properties of Hash::add and Hash::remove on chains.                     *)
(***************************************************************************)
\* C31: when add(N), without growth, finds the bucket home(N) held by a
\* valid entry whose home is another bucket, and returns, then N is in
\* home(N) with no chain link, and the displaced entry is found under its
\* name, in another slot, with the value and the attribute bits it had.
C31_InterloperEvicted ==
    [][(/\ lastOp'.op = "add"
        /\ ops' = ops + 1
        /\ hstatus' = "running"
        /\ ~lastOp'.present
        /\ ~lastOp'.grew
        /\ is_valid(hash.entries[home(hash, lastOp'.name)])
        /\ home(hash, hash.entries[home(hash, lastOp'.name)].name)
              # home(hash, lastOp'.name)) =>
           LET N == lastOp'.name
               b == home(hash, N)
               displaced == hash.entries[b]
               found == find_entry(hash', displaced.name)
           IN  /\ is_valid(hash'.entries[b])
               /\ hash'.entries[b].name = N
               /\ hash'.entries[b].next = -1
               /\ found # None
               /\ found[1] # b
               /\ hash'.entries[found[1]].flags = displaced.flags
               /\ hash'.entries[found[1]].value1 = displaced.value1
               /\ hash'.entries[found[1]].value2 = displaced.value2
               /\ get_value(hash', displaced.name) = Some(as_property(displaced))
      ]_vars

\* an add has just evicted an interloper: the new entry is in its home
\* bucket and the store holds a valid entry outside its own home
C31_Witness ==
    /\ lastOp.op = "add"
    /\ lastOp.path = "evict"
    /\ ~lastOp.grew
    /\ hstatus = "running"
    /\ hash.entries[home(hash, lastOp.name)].name = lastOp.name
    /\ \E i \in DOMAIN hash.entries :
          is_valid(hash.entries[i]) /\ home(hash, hash.entries[i].name) # i

\* the names held along the chain of bucket b, in order
ChainNames(h, b) == [k \in 1..Len(Chain(h, b)) |-> h.entries[Chain(h, b)[k]].name]

\* C32: removing the entry in the home bucket of a chain that has a
\* successor copies the successor, with its next link, into the home bucket
\* and invalidates the successor's old slot; the other entries of the chain
\* stay on the chain of the bucket in the same order.
C32_RemoveFront ==
    [][(/\ lastOp'.op = "remove"
        /\ ops' = ops + 1
        /\ is_valid(hash.entries[home(hash, lastOp'.name)])
        /\ hash.entries[home(hash, lastOp'.name)].name = lastOp'.name
        /\ hash.entries[home(hash, lastOp'.name)].next # -1) =>
           LET b == home(hash, lastOp'.name)
               successor == hash.entries[b].next
           IN  /\ lastOp'.result
               /\ hash'.entries[b] = hash.entries[successor]
               /\ ~is_valid(hash'.entries[successor])
               /\ ChainNames(hash', b) = Tail(ChainNames(hash, b))
               /\ \A k \in 1..Len(Chain(hash', b)) :
                     is_valid(hash'.entries[Chain(hash', b)[k]])
      ]_vars

\* the front of a chain of three was removed: two entries are left on the
\* chain of the bucket
C32_Witness ==
    /\ lastOp.op = "remove"
    /\ lastOp.path = "head_next"
    /\ lastOp.result
    /\ Len(Chain(hash, home(hash, lastOp.name))) = 2
    /\ is_valid(hash.entries[home(hash, lastOp.name)])

(***************************************************************************)
(* Properties of can_put and put.                                          *)
(***************************************************************************)
\* C33: can_put(P) is false exactly when P is an own data property that is
\* not writable, or an own accessor without a setter, or is not own and is
\* inherited as an accessor without a setter, or is not own and inherited
\* as a data property while the object is not extensible or the property
\* is not writable, or is found nowhere while the object is not extensible.
C33_CanPutCases ==
    rtcall.op = "can_put" =>
        LET b == rtcall.before
            P == rtcall.property
            own == b[1].props[P]
            inh == Inherited(b, P)
        IN  (rtcall.ret = FALSE) <=>
               \/ own # None /\ is_data(own[1]) /\ own[1].writable # Some(TRUE)
               \/ own # None /\ ~is_data(own[1]) /\ ~HasSetter(own[1])
               \/ own = None /\ inh # None /\ ~is_data(inh[1])
                     /\ ~HasSetter(inh[1])
               \/ own = None /\ inh # None /\ is_data(inh[1])
                     /\ (~b[1].extensible \/ inh[1].writable # Some(TRUE))
               \/ own = None /\ inh = None /\ ~b[1].extensible

\* can_put said no for a name that is not own and is inherited as a
\* writable data property, because the object is not extensible
C33_Witness ==
    /\ rtcall.op = "can_put"
    /\ rtcall.ret = FALSE
    /\ rtcall.before[1].props[rtcall.property] = None
    /\ Inherited(rtcall.before, rtcall.property) # None
    /\ Inherited(rtcall.before, rtcall.property)[1].writable = Some(TRUE)
    /\ ~rtcall.before[1].extensible

(***************************************************************************)
(* Properties of the scope stack as a root set.                            *)
(***************************************************************************)
\* C34: a call that creates a Local registers it in the most recently
\* created live scope: that scope holds one slot more, with the address of
\* the object, and every enclosing scope holds as many as before.  Dropping
\* the top scope removes from the root set exactly the slots of that scope,
\* current vector and history, and leaves the slots of the enclosing
\* scopes and the root table as they were.
C34_LocalsOfTopScope ==
    [][/\ (lastCall'.op \in LocalCreators /\ gops' # gops
           /\ lastCall'.panic = NoPanic) =>
              /\ Len(scopes) > 0
              /\ Len(scopes') = Len(scopes)
              /\ lastCall'.ret[1] = Len(scopes) - 1
              /\ Local_deref(scopes', lastCall'.ret) = lastCall'.alloc.addr
              /\ NumLocals(scopes'[Len(scopes)])
                    = NumLocals(scopes[Len(scopes)]) + 1
              /\ \A k \in 1..(Len(scopes) - 1) :
                    NumLocals(scopes'[k]) = NumLocals(scopes[k])
       /\ (lastCall'.op = "drop_scope" /\ gops' # gops
           /\ lastCall'.arg[1] + 1 = Len(scopes)) =>
              /\ LocalSlotsOf(scopes')
                    = {sl \in LocalSlotsOf(scopes) : sl[2] # Len(scopes) - 1}
              /\ \A sl \in LocalSlotsOf(scopes') :
                    SlotGet([ptrs |-> ptrs', scopes |-> scopes',
                             stack |-> stack'], sl)
                       = SlotGet(Roots, sl)
              /\ ptrs' = ptrs
              /\ free' = free
              /\ live' = live
      ]_vars

\* the inner of two scopes was dropped: the Locals of the outer one and a
\* Root are still held
C34_Witness ==
    /\ lastCall.op = "drop_scope"
    /\ lastCall.panic = NoPanic
    /\ lastCall.arg[1] = 1
    /\ Len(scopes) = 1
    /\ NumLocals(scopes[1]) > 0
    /\ live # {}

(***************************************************************************)
(* Properties of the allocation header.                                    *)
(***************************************************************************)
\* C35: the header of every allocation decodes to the type tag, the array
\* flag and the payload size in bytes: size_of(T) rounded up to words for
\* an object, a word plus count times the element size for an array.
C35_HeaderDecodes ==
    \A a \in DOMAIN objs :
        /\ get_type_id(objs[a].header) = objs[a].ty
        /\ is_array(objs[a].header) = objs[a].array
        /\ get_size(objs[a].header)
              = IF objs[a].array
                THEN 8 + ArrayLen(objs[a]) * PayloadWords(objs[a].ty) * 8
                ELSE PayloadWords(objs[a].ty) * 8

(***************************************************************************)
(* Termination of Hash::add.                                               *)
(***************************************************************************)
\* C36: every add of an absent name returns: when add scans forward for a
\* free slot an invalid slot exists, so neither the add nor the re-insertion
\* of an evicted interloper is left scanning a full table.
C36_AddTerminates ==
    lastOp.op = "add" /\ ~lastOp.present => hstatus = "running"

(***************************************************************************)
(* Growth of a table on the heap.                                          *)
(***************************************************************************)
\* C37: when a table was grown, the old entries were read through the
\* address the old table has after the allocation of the new table, and the
\* new table, which the store refers to, begins with the old entries.
C37_GrowReadsMovedTable ==
    lastCall.op = "grow_entries" /\ lastCall.panic = NoPanic =>
        /\ lastCall.ret[1] = lastCall.ret[2]
        /\ ptrs[lastCall.arg[1] + 1] = lastCall.ret[3]
        /\ SubSeq(objs[lastCall.ret[3]].words, 1, Len(lastCall.arg[2]))
              = lastCall.arg[2]

(***************************************************************************)
(* The setter put calls.                                                   *)
(***************************************************************************)
\* C38: put never calls an undefined setter, and a put with throw = false
\* on a property that has a getter and no setter returns Ok.
C38_SetterDefined ==
    rtcall.op = "put" =>
        LET found == get_property(rtcall.before, 1, rtcall.property)
        IN  /\ \A k \in 1..Len(rtcall.calls) : rtcall.calls[k].callee # Undefined
            /\ (/\ ~rtcall.throw
                /\ found.desc # None
                /\ is_accessor(found.desc[1])
                /\ unwrap_or(found.desc[1].set, Undefined) = Undefined)
                 => rtcall.ret = "Ok" /\ rtcall.error = ""

(***************************************************************************)
(* The kind of the descriptor to_property_descriptor returns.              *)
(***************************************************************************)
\* C39: to_property_descriptor rejects an object that has get or set
\* together with value or writable, and a descriptor it returns is not both
\* a data descriptor and an accessor descriptor.
C39_DataOrAccessor ==
    rtcall.op = "round_trip" =>
        LET has(property) == get_property(rtcall.before, 1, property).desc # None
        IN  /\ (has("get") \/ has("set")) /\ (has("value") \/ has("writable"))
                 => rtcall.ret = "Err"
            /\ rtcall.ret = "Ok"
                 => ~(is_data(rtcall.desc) /\ is_accessor(rtcall.desc))

(***************************************************************************)
(* Intrinsics_registerFunction and its arguments.                          *)
(***************************************************************************)
\* C40: when the target or the function handed to registerFunction is not
\* an object, the call returns the TypeError "Unexpected type", not Ok, and
\* defines no property on the target.
C40_RegisterRejects ==
    (/\ rtcall.op = "register_function"
     /\ (~rtcall.target_is_object \/ rtcall.function = "number")) =>
        /\ rtcall.ret = "Err"
        /\ rtcall.error = errors.TYPE_INVALID
        /\ chain = rtcall.before

====
